---- MODULE Spec2Model ----
(***************************************************************************)
(* Model of gestionale-materiali (app/main.py).  First the write path:    *)
(* the handlers that create, modify, delete and import Purchases          *)
(* (Acquisto), Items (Prodotto) and Sales (Vendita), run against the       *)
(* SQLAlchemy session configured in app/database.py (autocommit=False,     *)
(* autoflush=False).  Then the metrics: the scores that lista_acquisti     *)
(* attaches to a Purchase, the computed attributes of                      *)
(* app/models/model_nuovo.py, and the reports problemi,                    *)
(* performance_dashboard and statistiche_periodiche.                       *)
(*                                                                         *)
(* Storage.  main.py imports Acquisto and Prodotto from                    *)
(* app/models/models.py, so the column constraints of the two tables are   *)
(* taken from there (id_acquisto_univoco unique and NOT NULL, seriale      *)
(* unique=False).  The handlers build Sales with prodotto_id, the shape    *)
(* of Vendita in app/models/model_nuovo.py, so a Sale is linked to its     *)
(* Item by prodotto_id; invoicex_id carries no unique constraint in either *)
(* file.                                                                   *)
(*                                                                         *)
(* Session.  A query is SQL against the rows written so far by the        *)
(* transaction (committed rows plus what was flushed); objects that were   *)
(* only add()-ed, and attribute changes not yet flushed, are invisible to  *)
(* it because autoflush is off.  A request that raises leaves through      *)
(* get_db, whose close() rolls the transaction back.  A flush that fails   *)
(* rolls the transaction back and every later use of the session raises.   *)
(* Identifiers are handed out by a counter that never reuses a value.      *)
(***************************************************************************)
EXTENDS Integers, Sequences, FiniteSets, TLC

\* ------------------------------------------------------------------ bounds
MaxAcquisti == 2
MaxProdotti == 2
MaxVendite == 2
MaxVoci == 2

\* ------------------------------------------------------------ value sets
None == "None"

Codici == {"A", "B"}
Costi == {100}
Prezzi == {150}
SerialiForm == {" ", "N/A", "S1"}

\* str.strip() on the strings that occur as form values
strip(s) == IF s = " " THEN "" ELSE s

\* Python truthiness of an optional string
Truthy(s) == s # None /\ s # ""

\* a real serial: present and not one of the placeholder tokens
SerialeReale(s) == Truthy(s) /\ s \notin {"N/A", "???"}

\* ---------------------------------------------------------------- state
\* acquisti, prodotti, vendite: the committed rows, by id; seq: the last id
\* handed out per table; last: the handler that ran last and its answer;
\* richieste: the requests in flight on the event loop; loop: the request
\* whose coroutine holds the event loop (0 when it is free); acquisto: the
\* Purchase, loaded with its Items and their Sales, that the metric
\* computations are applied to (None while none is loaded); archivio: the
\* Purchases, each loaded with its Items and Sales, that the queries of the
\* list page and of the reports run over; metriche: what the computation
\* applied last attached or returned
VARIABLES acquisti, prodotti, vendite, seq, last, richieste, loop, acquisto, archivio,
          metriche

vars == <<acquisti, prodotti, vendite, seq, last, richieste, loop, acquisto, archivio, metriche>>

Db == [acquisti |-> acquisti, prodotti |-> prodotti, vendite |-> vendite, seq |-> seq]

Put(f, k, v) == [x \in DOMAIN f \cup {k} |-> IF x = k THEN v ELSE f[x]]
Drop(f, S) == [x \in DOMAIN f \ S |-> f[x]]

\* ---------------------------------------------------- schema constraints
IdAcquistoUnique == TRUE
SerialeUnique == FALSE
InvoicexIdUnique == FALSE

\* what the database accepts at flush time
Integrita(db) ==
    /\ \A a \in DOMAIN db.acquisti : db.acquisti[a].id_acquisto_univoco # None
    /\ IdAcquistoUnique =>
          \A a, b \in DOMAIN db.acquisti :
              a # b => db.acquisti[a].id_acquisto_univoco # db.acquisti[b].id_acquisto_univoco
    /\ SerialeUnique =>
          \A p, q \in DOMAIN db.prodotti :
              (p # q /\ db.prodotti[p].seriale # None) => db.prodotti[p].seriale # db.prodotti[q].seriale
    /\ \A v \in DOMAIN db.vendite : db.vendite[v].canale_vendita # None
    /\ InvoicexIdUnique =>
          \A v, w \in DOMAIN db.vendite :
              (v # w /\ db.vendite[v].invoicex_id # None) => db.vendite[v].invoicex_id # db.vendite[w].invoicex_id

\* Prodotto.venduto
venduto(db, pid) == \E v \in DOMAIN db.vendite : db.vendite[v].prodotto_id = pid

\* variant: the lookup of the code finds nothing
AcquistoEsistente_mai(db, codice) == FALSE

\* db.query(Acquisto).filter(Acquisto.id_acquisto_univoco == codice).first()
AcquistoEsistente(db, codice) ==
    \E a \in DOMAIN db.acquisti : db.acquisti[a].id_acquisto_univoco = codice

\* db.query(Prodotto).filter(Prodotto.seriale == seriale).first()
SerialeEsistente(db, seriale) ==
    \E p \in DOMAIN db.prodotti : db.prodotti[p].seriale = seriale

\* db.add(obj) followed by the INSERT of a flush: the next id of the table
InsertAcquisto(db, rec) ==
    [db EXCEPT !.acquisti = Put(@, db.seq.a + 1, rec), !.seq.a = @ + 1]
InsertProdotto(db, rec) ==
    [db EXCEPT !.prodotti = Put(@, db.seq.p + 1, rec), !.seq.p = @ + 1]
InsertVendita(db, rec) ==
    [db EXCEPT !.vendite = Put(@, db.seq.v + 1, rec), !.seq.v = @ + 1]

RECURSIVE InsertProdotti(_, _)
InsertProdotti(db, recs) ==
    IF recs = <<>> THEN db
    ELSE InsertProdotti(InsertProdotto(db, Head(recs)), Tail(recs))

RECURSIVE InsertVendite(_, _)
InsertVendite(db, recs) ==
    IF recs = <<>> THEN db
    ELSE InsertVendite(InsertVendita(db, Head(recs)), Tail(recs))

\* outcome of a request: the committed database and what the caller is
\* told (the answer and the counts the response carries, 0 where it has none)
Esito(db, op, esito, n1, n2, n3) ==
    [db |-> db, op |-> op, esito |-> esito, inseriti |-> n1, aggiornati |-> n2, errori |-> n3]

\* db.commit(): flush what is pending, then make it durable; a failed flush
\* raises and nothing of the request is stored
Commit(old, tx, op, esito, n1, n2, n3) ==
    IF Integrita(tx) THEN Esito(tx, op, esito, n1, n2, n3)
    ELSE Esito(old, op, "errore_500", 0, 0, 0)

\* sequences of at most n elements of S
SeqFino(S, n) == UNION {[1..k -> S] : k \in 0..n}

\* ------------------------------------------------------- crea_acquisto
VociCrea == [seriale : SerialiForm, descrizione : {"d1"}] \cup {[seriale |-> "S1", descrizione |-> " "]}

RECURSIVE CreaProdotti(_, _, _, _)
\* the loop over prodotti_data: pend are the add()-ed Items, "dup" the 400
CreaProdotti(tx, aid, voci, pend) ==
    IF voci = <<>> THEN [dup |-> FALSE, pend |-> pend]
    ELSE LET v == Head(voci)
             seriale == strip(v.seriale)
         IN  IF strip(v.descrizione) = "" THEN CreaProdotti(tx, aid, Tail(voci), pend)
             ELSE IF Truthy(seriale) /\ SerialeEsistente(tx, seriale)
                  THEN [dup |-> TRUE, pend |-> pend]
             ELSE CreaProdotti(tx, aid, Tail(voci),
                      Append(pend, [acquisto_id |-> aid,
                                    seriale |-> IF Truthy(seriale) THEN seriale ELSE None,
                                    prodotto_descrizione |-> strip(v.descrizione)]))

H_crea_acquisto(db, codice, costo, voci) ==
    IF AcquistoEsistente(db, strip(codice))
    THEN Esito(db, "crea_acquisto", "id_esistente", 0, 0, 0)
    ELSE LET tx == InsertAcquisto(db, [id_acquisto_univoco |-> strip(codice),
                                       costo_acquisto |-> costo])
             r == CreaProdotti(tx, tx.seq.a, voci, <<>>)
         IN  IF ~Integrita(tx) THEN Esito(db, "crea_acquisto", "errore_500", 0, 0, 0)
             ELSE IF r.dup THEN Esito(db, "crea_acquisto", "seriale_esistente", 0, 0, 0)
             ELSE Commit(db, InsertProdotti(tx, r.pend), "crea_acquisto", "ok", 0, 0, 0)

\* one Item per entry, with or without a serial
VociUna == [seriale : {" ", "S1"}, descrizione : {"d1"}]

\* ------------------------------------------------------- salva_seriali
\* a form entry names an Item by id; 0 stands for a missing id field
VociSeriali ==
    [id : 1..MaxProdotti, seriale : {"N/A", "S1"}]
        \cup {[id |-> 0, seriale |-> "S1"], [id |-> 1, seriale |-> " "]}

\* entries that give a serial to an Item
VociSerialiUna == [id : 1..MaxProdotti, seriale : {"S1"}]

\* the attribute as the session's object holds it: the unflushed change if
\* there is one, else the row
SerialeInMemoria(tx, dirty, pid) ==
    IF pid \in DOMAIN dirty THEN dirty[pid] ELSE tx.prodotti[pid].seriale

ApplicaSeriali(tx, dirty) ==
    [tx EXCEPT !.prodotti = [p \in DOMAIN tx.prodotti |->
        IF p \in DOMAIN dirty THEN [tx.prodotti[p] EXCEPT !.seriale = dirty[p]]
        ELSE tx.prodotti[p]]]

RECURSIVE SalvaSerialiVoci(_, _, _, _)
SalvaSerialiVoci(tx, voci, dirty, n) ==
    IF voci = <<>> THEN [dup |-> FALSE, dirty |-> dirty, n |-> n]
    ELSE LET v == Head(voci)
             nuovo_seriale == strip(v.seriale)
         IN  IF v.id = 0 \/ ~Truthy(nuovo_seriale)
             THEN SalvaSerialiVoci(tx, Tail(voci), dirty, n)
             ELSE IF SerialeEsistente(tx, nuovo_seriale)
                  THEN [dup |-> TRUE, dirty |-> dirty, n |-> n]
             ELSE IF v.id \in DOMAIN tx.prodotti /\ ~Truthy(SerialeInMemoria(tx, dirty, v.id))
                  THEN SalvaSerialiVoci(tx, Tail(voci), Put(dirty, v.id, nuovo_seriale), n + 1)
             ELSE SalvaSerialiVoci(tx, Tail(voci), dirty, n)

\* variant: the serials set before the duplicate is met are committed
H_salva_seriali_parziale(db, acquisto_id, voci) ==
    IF acquisto_id \notin DOMAIN db.acquisti
    THEN Esito(db, "salva_seriali", "non_trovato", 0, 0, 0)
    ELSE LET r == SalvaSerialiVoci(db, voci, << >>, 0)
         IN  Commit(db, ApplicaSeriali(db, r.dirty), "salva_seriali",
                    IF r.dup THEN "seriale_esistente" ELSE "ok", r.n, 0, 0)

H_salva_seriali(db, acquisto_id, voci) ==
    IF acquisto_id \notin DOMAIN db.acquisti
    THEN Esito(db, "salva_seriali", "non_trovato", 0, 0, 0)
    ELSE LET r == SalvaSerialiVoci(db, voci, << >>, 0)
         IN  IF r.dup THEN Esito(db, "salva_seriali", "seriale_esistente", 0, 0, 0)
             ELSE Commit(db, ApplicaSeriali(db, r.dirty), "salva_seriali", "ok", r.n, 0, 0)

\* ---------------------------------------------- salva_seriali_multipli
RECURSIVE SalvaMultipliVoci(_, _, _, _, _)
SalvaMultipliVoci(tx, voci, dirty, n, dup) ==
    IF voci = <<>> THEN [dirty |-> dirty, n |-> n, dup |-> dup]
    ELSE LET v == Head(voci)
             nuovo_seriale == strip(v.seriale)
         IN  IF v.id = 0 \/ ~Truthy(nuovo_seriale)
             THEN SalvaMultipliVoci(tx, Tail(voci), dirty, n, dup)
             ELSE IF SerialeEsistente(tx, nuovo_seriale)
                  THEN SalvaMultipliVoci(tx, Tail(voci), dirty, n, dup + 1)
             ELSE IF v.id \in DOMAIN tx.prodotti /\ ~Truthy(SerialeInMemoria(tx, dirty, v.id))
                  THEN SalvaMultipliVoci(tx, Tail(voci), Put(dirty, v.id, nuovo_seriale), n + 1, dup)
             ELSE SalvaMultipliVoci(tx, Tail(voci), dirty, n, dup)

H_salva_seriali_multipli(db, voci) ==
    LET r == SalvaMultipliVoci(db, voci, << >>, 0, 0)
    IN  Commit(db, ApplicaSeriali(db, r.dirty), "salva_seriali_multipli",
               IF r.n > 0 THEN "ok" ELSE "errori", r.n, 0, r.dup)

\* ---------------------------------------------------- elimina_acquisto
ProdottiDi(db, aid) == {p \in DOMAIN db.prodotti : db.prodotti[p].acquisto_id = aid}

\* variant: the Purchase is deleted without looking at its Items' Sales
H_elimina_acquisto_senza_controllo(db, acquisto_id) ==
    IF acquisto_id \notin DOMAIN db.acquisti
    THEN Esito(db, "elimina_acquisto", "non_trovato", 0, 0, 0)
    ELSE Commit(db, [db EXCEPT !.prodotti = Drop(@, ProdottiDi(db, acquisto_id)),
                               !.acquisti = Drop(@, {acquisto_id})],
                "elimina_acquisto", "ok", 0, 0, 0)

H_elimina_acquisto(db, acquisto_id) ==
    IF acquisto_id \notin DOMAIN db.acquisti
    THEN Esito(db, "elimina_acquisto", "non_trovato", 0, 0, 0)
    ELSE LET prodotti_venduti == {p \in ProdottiDi(db, acquisto_id) : venduto(db, p)}
         IN  IF prodotti_venduti # {}
             THEN Esito(db, "elimina_acquisto", "prodotti_venduti", 0, 0, Cardinality(prodotti_venduti))
             ELSE Commit(db, [db EXCEPT !.prodotti = Drop(@, ProdottiDi(db, acquisto_id)),
                                        !.acquisti = Drop(@, {acquisto_id})],
                         "elimina_acquisto", "ok", 0, 0, 0)

\* ----------------------------------------------------- elimina_vendita
\* variant: the only Sale of an Item is not deleted
H_elimina_vendita_non_ultima(db, vendita_id) ==
    IF vendita_id \notin DOMAIN db.vendite
    THEN Esito(db, "elimina_vendita", "non_trovato", 0, 0, 0)
    ELSE IF \A v \in DOMAIN db.vendite :
                db.vendite[v].prodotto_id = db.vendite[vendita_id].prodotto_id => v = vendita_id
    THEN Esito(db, "elimina_vendita", "prodotto_venduto", 0, 0, 0)
    ELSE Commit(db, [db EXCEPT !.vendite = Drop(@, {vendita_id})], "elimina_vendita", "ok", 0, 0, 0)

H_elimina_vendita(db, vendita_id) ==
    IF vendita_id \notin DOMAIN db.vendite
    THEN Esito(db, "elimina_vendita", "non_trovato", 0, 0, 0)
    ELSE Commit(db, [db EXCEPT !.vendite = Drop(@, {vendita_id})], "elimina_vendita", "ok", 0, 0, 0)

\* --------------------------------------------- salva_modifica_acquisto
\* id 0 stands for an entry without a numeric id (a new Item)
VociModifica ==
    [id : {0}, seriale : {"N/A", "S1"}, descrizione : {"d1"}]
        \cup [id : 1..MaxProdotti, seriale : {" ", "S1"}, descrizione : {"d2"}]

VociModUna == [id : {0, 1}, seriale : {"S1"}, descrizione : {"d2"}]

\* db.query(Prodotto).filter(Prodotto.seriale == seriale, Prodotto.id != prodotto_id).first()
SerialeEsistenteAltrove(db, seriale, pid) ==
    \E p \in DOMAIN db.prodotti : p # pid /\ db.prodotti[p].seriale = seriale

RECURSIVE ModificaVoci(_, _, _, _, _)
\* dirty: unflushed changes of existing Items (prodotti_modificati is its
\* domain); pend: add()-ed Items
ModificaVoci(tx, aid, voci, dirty, pend) ==
    IF voci = <<>> THEN [dup |-> FALSE, dirty |-> dirty, pend |-> pend]
    ELSE LET v == Head(voci)
             seriale == strip(v.seriale)
             descrizione == strip(v.descrizione)
             valore == IF Truthy(seriale) THEN seriale ELSE None
         IN  IF descrizione = "" THEN ModificaVoci(tx, aid, Tail(voci), dirty, pend)
             ELSE IF v.id # 0
                  THEN IF v.id \in DOMAIN tx.prodotti /\ ~venduto(tx, v.id)
                       THEN IF Truthy(seriale) /\ SerialeEsistenteAltrove(tx, seriale, v.id)
                            THEN [dup |-> TRUE, dirty |-> dirty, pend |-> pend]
                            ELSE ModificaVoci(tx, aid, Tail(voci),
                                     Put(dirty, v.id, [acquisto_id |-> tx.prodotti[v.id].acquisto_id,
                                                       seriale |-> valore,
                                                       prodotto_descrizione |-> descrizione]),
                                     pend)
                       ELSE ModificaVoci(tx, aid, Tail(voci), dirty, pend)
             ELSE IF Truthy(seriale) /\ SerialeEsistente(tx, seriale)
                  THEN [dup |-> TRUE, dirty |-> dirty, pend |-> pend]
             ELSE ModificaVoci(tx, aid, Tail(voci), dirty,
                      Append(pend, [acquisto_id |-> aid, seriale |-> valore,
                                    prodotto_descrizione |-> descrizione]))

H_salva_modifica_acquisto(db, acquisto_id, nuovo_id, costo, voci) ==
    IF acquisto_id \notin DOMAIN db.acquisti
    THEN Esito(db, "salva_modifica_acquisto", "non_trovato", 0, 0, 0)
    ELSE IF /\ strip(nuovo_id) # db.acquisti[acquisto_id].id_acquisto_univoco
            /\ \E a \in DOMAIN db.acquisti :
                   a # acquisto_id /\ db.acquisti[a].id_acquisto_univoco = strip(nuovo_id)
    THEN Esito(db, "salva_modifica_acquisto", "id_esistente", 0, 0, 0)
    ELSE LET prodotti_esistenti == ProdottiDi(db, acquisto_id)
             r == ModificaVoci(db, acquisto_id, voci, << >>, <<>>)
             prodotti_modificati == DOMAIN r.dirty
             eliminati == {p \in prodotti_esistenti : p \notin prodotti_modificati /\ ~venduto(db, p)}
             tx == [db EXCEPT
                      !.acquisti[acquisto_id] = [id_acquisto_univoco |-> strip(nuovo_id),
                                                 costo_acquisto |-> costo],
                      !.prodotti = Drop([p \in DOMAIN db.prodotti |->
                                            IF p \in DOMAIN r.dirty THEN r.dirty[p]
                                            ELSE db.prodotti[p]], eliminati)]
         IN  IF r.dup THEN Esito(db, "salva_modifica_acquisto", "seriale_esistente", 0, 0, 0)
             ELSE Commit(db, InsertProdotti(tx, r.pend), "salva_modifica_acquisto", "ok", 0, 0, 0)

\* ------------------------------------------- ricevi_acquisti_da_script
\* one "prodotti" element of the JSON payload
VociJson ==
    [seriale : {None, "S1"}, descrizione : {"d1"}, is_fotorip : BOOLEAN]

\* one "acquisti" element with at most n Items; None stands for a missing
\* id_acquisto_univoco
LottiJson(n) ==
    [id_acquisto_univoco : Codici \cup {None}, costo_acquisto : Costi,
     prodotti : SeqFino(VociJson, n)]

RECURSIVE NumeroProdotti(_)
NumeroProdotti(lotti) ==
    IF lotti = <<>> THEN 0 ELSE Len(Head(lotti).prodotti) + NumeroProdotti(Tail(lotti))

\* the session while a batch is processed: tx is what SQL sees, pp and pv
\* are the add()-ed Items and Sales not yet flushed, rotto is set once a
\* flush has failed and the transaction was rolled back
Sessione(db) ==
    [tx |-> db, pp |-> <<>>, pv |-> <<>>, rotto |-> FALSE,
     acquisti_inseriti |-> 0, prodotti_inseriti |-> 0, prodotti_fotorip_venduti |-> 0,
     acquisti_aggiornati |-> 0, errori |-> 0]

\* db.flush(): INSERT everything pending; on failure roll back to the
\* state at the start of the request and drop the pending objects
Flush(db, s) ==
    LET tx == InsertVendite(InsertProdotti(s.tx, s.pp), s.pv)
    IN  IF Integrita(tx) THEN [s EXCEPT !.tx = tx, !.pp = <<>>, !.pv = <<>>]
        ELSE [s EXCEPT !.tx = db, !.pp = <<>>, !.pv = <<>>, !.rotto = TRUE]

RECURSIVE ImportaProdotti(_, _, _, _, _)
ImportaProdotti(db, s, aid, costo_totale_acquisto, voci) ==
    IF voci = <<>> THEN [s EXCEPT !.acquisti_inseriti = @ + 1]
    ELSE LET v == Head(voci)
         IN  IF ~Truthy(v.descrizione)
             THEN ImportaProdotti(db, s, aid, costo_totale_acquisto, Tail(voci))
             ELSE IF Truthy(v.seriale) /\ ~v.is_fotorip /\ SerialeEsistente(s.tx, v.seriale)
                  THEN ImportaProdotti(db, [s EXCEPT !.errori = @ + 1], aid,
                                       costo_totale_acquisto, Tail(voci))
             ELSE LET s1 == [s EXCEPT !.pp = Append(@, [acquisto_id |-> aid,
                                                         seriale |-> v.seriale,
                                                         prodotto_descrizione |-> v.descrizione]),
                                       !.prodotti_inseriti = @ + 1]
                      s2 == Flush(db, s1)
                  IN  IF ~v.is_fotorip
                      THEN ImportaProdotti(db, s1, aid, costo_totale_acquisto, Tail(voci))
                      ELSE IF s2.rotto THEN [s2 EXCEPT !.errori = @ + 1]
                      ELSE ImportaProdotti(db,
                               [s2 EXCEPT !.pv = Append(@,
                                      [prodotto_id |-> s2.tx.seq.p,
                                       invoicex_id |-> "FOTORIP_" \o ToString(s2.tx.seq.p),
                                       canale_vendita |-> "RIPARAZIONI",
                                       prezzo_vendita |-> costo_totale_acquisto,
                                       commissioni |-> 0]),
                                    !.prodotti_fotorip_venduti = @ + 1],
                               aid, costo_totale_acquisto, Tail(voci))

RECURSIVE ImportaAcquisti(_, _, _)
ImportaAcquisti(db, s, lotti) ==
    IF lotti = <<>> THEN s
    ELSE LET acquisto_info == Head(lotti)
             id_univoco == acquisto_info.id_acquisto_univoco
             s1 == Flush(db, [s EXCEPT !.tx = InsertAcquisto(@,
                                  [id_acquisto_univoco |-> id_univoco,
                                   costo_acquisto |-> acquisto_info.costo_acquisto])])
         IN  IF s.rotto
             THEN ImportaAcquisti(db, [s EXCEPT !.errori = @ + 1], Tail(lotti))
             ELSE IF AcquistoEsistente(s.tx, id_univoco)
                  THEN ImportaAcquisti(db, [s EXCEPT !.acquisti_aggiornati = @ + 1], Tail(lotti))
             ELSE IF s1.rotto
                  THEN ImportaAcquisti(db, [s1 EXCEPT !.errori = @ + 1], Tail(lotti))
             ELSE ImportaAcquisti(db,
                      ImportaProdotti(db, s1, s1.tx.seq.a, acquisto_info.costo_acquisto,
                                      acquisto_info.prodotti),
                      Tail(lotti))

\* the final db.commit(): it raises when the transaction was rolled back or
\* the last flush fails, and the handler then answers "error"
H_ricevi_acquisti_da_script(db, lotti) ==
    LET s == ImportaAcquisti(db, Sessione(db), lotti)
        f == Flush(db, s)
    IN  IF s.rotto \/ f.rotto
        THEN Esito(db, "ricevi_acquisti_da_script", "error", 0, 0, s.errori)
        ELSE Esito(f.tx, "ricevi_acquisti_da_script", "success",
                   s.acquisti_inseriti, s.acquisti_aggiornati, s.errori)

\* --------------------------------------------- ricevi_vendite_da_script
\* one "vendite" element: "" stands for a missing id (str of the default),
\* data_valida for a data_vendita that strptime accepts
VenditeJson ==
    [seriale : {"N/A", "S1"}, id : {"", "X1"}, data_valida : {TRUE},
     canale_vendita : {"ebay"}, prezzo_vendita : Prezzi]
        \cup [seriale : {None}, id : {"X1"}, data_valida : {TRUE},
              canale_vendita : {"ebay"}, prezzo_vendita : Prezzi]
        \cup [seriale : {"S1"}, id : {"X1"}, data_valida : {FALSE},
              canale_vendita : {"ebay"}, prezzo_vendita : Prezzi]
        \cup [seriale : {"S1"}, id : {"X1"}, data_valida : {TRUE},
              canale_vendita : {None}, prezzo_vendita : Prezzi]

\* variant: the lookup of the external id finds nothing
VenditaEsistente_mai(db, invoicex_id) == FALSE

\* db.query(Vendita).filter(Vendita.invoicex_id == invoicex_id).first()
VenditaEsistente(db, invoicex_id) ==
    \E v \in DOMAIN db.vendite : db.vendite[v].invoicex_id = invoicex_id

\* db.query(Prodotto).filter(Prodotto.seriale == seriale).first(): the
\* query has no ORDER BY, so which of several matching rows comes first
\* is the database's choice (primo)
ProdottoPerSeriale(db, seriale, primo) ==
    LET S == {p \in DOMAIN db.prodotti : db.prodotti[p].seriale = seriale}
    IN  IF S = {} THEN 0
        ELSE IF primo THEN CHOOSE p \in S : \A q \in S : p <= q
        ELSE CHOOSE p \in S : \A q \in S : p >= q

RECURSIVE ImportaVendite(_, _, _)
ImportaVendite(s, voci, primo) ==
    IF voci = <<>> THEN s
    ELSE LET vendita == Head(voci)
             prodotto == ProdottoPerSeriale(s.tx, vendita.seriale, primo)
             invoicex_id == vendita.id
         IN  IF ~Truthy(vendita.seriale) \/ prodotto = 0
             THEN ImportaVendite([s EXCEPT !.errori = @ + 1], Tail(voci), primo)
             ELSE IF VenditaEsistente(s.tx, invoicex_id)
                  THEN ImportaVendite([s EXCEPT !.vendite_aggiornate = @ + 1], Tail(voci), primo)
             ELSE IF ~vendita.data_valida
                  THEN ImportaVendite([s EXCEPT !.errori = @ + 1], Tail(voci), primo)
             ELSE ImportaVendite(
                      [s EXCEPT !.pv = Append(@, [prodotto_id |-> prodotto,
                                                  invoicex_id |-> invoicex_id,
                                                  canale_vendita |-> vendita.canale_vendita,
                                                  prezzo_vendita |-> vendita.prezzo_vendita,
                                                  commissioni |-> 0]),
                                !.vendite_inserite = @ + 1],
                      Tail(voci), primo)

H_ricevi_vendite_da_script(db, voci, primo) ==
    LET s == ImportaVendite([tx |-> db, pp |-> <<>>, pv |-> <<>>, rotto |-> FALSE,
                             vendite_inserite |-> 0, vendite_aggiornate |-> 0, errori |-> 0],
                            voci, primo)
        f == Flush(db, s)
    IN  IF f.rotto
        THEN Esito(db, "ricevi_vendite_da_script", "error", 0, 0, s.errori)
        ELSE Esito(f.tx, "ricevi_vendite_da_script", "success",
                   s.vendite_inserite, s.vendite_aggiornate, s.errori)

\* ------------------------------------------------------------- actions
\* a request is admitted as long as the id counters stay within the bounds
EntroLimiti(db) ==
    /\ db.seq.a <= MaxAcquisti
    /\ db.seq.p <= MaxProdotti
    /\ db.seq.v <= MaxVendite

\* what is kept of the response of a request
Risposta(r) ==
    [op |-> r.op, esito |-> r.esito, aggiornati |-> r.aggiornati, errori |-> r.errori]

crea_acquisto_da(V) ==
    \E codice \in Codici, costo \in Costi, voci \in SeqFino(V, MaxVoci) :
        LET r == H_crea_acquisto(Db, codice, costo, voci)
        IN  /\ EntroLimiti(r.db)
            /\ acquisti' = r.db.acquisti
            /\ prodotti' = r.db.prodotti
            /\ vendite' = r.db.vendite
            /\ seq' = r.db.seq
            /\ last' = Risposta(r)
            /\ UNCHANGED <<richieste, loop, acquisto, archivio, metriche>>

salva_seriali_da(V) ==
    \E acquisto_id \in 1..MaxAcquisti, voci \in SeqFino(V, MaxVoci) :
        LET r == H_salva_seriali(Db, acquisto_id, voci)
        IN  /\ EntroLimiti(r.db)
            /\ acquisti' = r.db.acquisti
            /\ prodotti' = r.db.prodotti
            /\ vendite' = r.db.vendite
            /\ seq' = r.db.seq
            /\ last' = Risposta(r)
            /\ UNCHANGED <<richieste, loop, acquisto, archivio, metriche>>

salva_seriali_multipli_da(V) ==
    \E voci \in SeqFino(V, MaxVoci) :
        LET r == H_salva_seriali_multipli(Db, voci)
        IN  /\ EntroLimiti(r.db)
            /\ acquisti' = r.db.acquisti
            /\ prodotti' = r.db.prodotti
            /\ vendite' = r.db.vendite
            /\ seq' = r.db.seq
            /\ last' = Risposta(r)
            /\ UNCHANGED <<richieste, loop, acquisto, archivio, metriche>>

salva_modifica_acquisto_da(V) ==
    \E acquisto_id \in 1..MaxAcquisti, nuovo_id \in Codici, costo \in Costi,
       voci \in SeqFino(V, MaxVoci) :
        LET r == H_salva_modifica_acquisto(Db, acquisto_id, nuovo_id, costo, voci)
        IN  /\ EntroLimiti(r.db)
            /\ acquisti' = r.db.acquisti
            /\ prodotti' = r.db.prodotti
            /\ vendite' = r.db.vendite
            /\ seq' = r.db.seq
            /\ last' = Risposta(r)
            /\ UNCHANGED <<richieste, loop, acquisto, archivio, metriche>>

elimina_acquisto ==
    \E acquisto_id \in 1..MaxAcquisti :
        LET r == H_elimina_acquisto(Db, acquisto_id)
        IN  /\ EntroLimiti(r.db)
            /\ acquisti' = r.db.acquisti
            /\ prodotti' = r.db.prodotti
            /\ vendite' = r.db.vendite
            /\ seq' = r.db.seq
            /\ last' = Risposta(r)
            /\ UNCHANGED <<richieste, loop, acquisto, archivio, metriche>>

elimina_vendita ==
    \E vendita_id \in 1..MaxVendite :
        LET r == H_elimina_vendita(Db, vendita_id)
        IN  /\ EntroLimiti(r.db)
            /\ acquisti' = r.db.acquisti
            /\ prodotti' = r.db.prodotti
            /\ vendite' = r.db.vendite
            /\ seq' = r.db.seq
            /\ last' = Risposta(r)
            /\ UNCHANGED <<richieste, loop, acquisto, archivio, metriche>>

\* payloads of k Purchases, at most MaxVoci; Purchases and Items together
\* number MaxVoci + 1 at most
PayloadAcquisti(k) ==
    {lotti \in [1..k -> LottiJson(MaxVoci + 1 - k)] : k + NumeroProdotti(lotti) <= MaxVoci + 1}

ricevi_acquisti_da_script ==
    \E k \in 0..MaxVoci : \E lotti \in PayloadAcquisti(k) :
        LET r == H_ricevi_acquisti_da_script(Db, lotti)
        IN  /\ EntroLimiti(r.db)
            /\ acquisti' = r.db.acquisti
            /\ prodotti' = r.db.prodotti
            /\ vendite' = r.db.vendite
            /\ seq' = r.db.seq
            /\ last' = Risposta(r)
            /\ UNCHANGED <<richieste, loop, acquisto, archivio, metriche>>

ricevi_vendite_da_script ==
    \E voci \in SeqFino(VenditeJson, MaxVoci), primo \in BOOLEAN :
        LET r == H_ricevi_vendite_da_script(Db, voci, primo)
        IN  /\ EntroLimiti(r.db)
            /\ acquisti' = r.db.acquisti
            /\ prodotti' = r.db.prodotti
            /\ vendite' = r.db.vendite
            /\ seq' = r.db.seq
            /\ last' = Risposta(r)
            /\ UNCHANGED <<richieste, loop, acquisto, archivio, metriche>>

\* ------------------------------------------------- concurrent requests
\* Every handler is an "async def" that awaits the request body once
\* (await request.form() / await request.json()) and then runs synchronous
\* SQLAlchemy calls up to its return.  uvicorn.run starts one process with
\* one event loop, so a coroutine is suspended at an await and nowhere else.
Richieste == {1, 2}

Libera == [pc |-> "libera", tipo |-> "nessuna", dati |-> <<>>, primo |-> TRUE,
           piano |-> <<>>, concorrente |-> FALSE, esito |-> "nessuno"]

\* variant: the coroutine also yields between its checks and its commit
PuntoDiAttesa_anche_al_controllo(pc) == pc \in {"libera", "form", "controllo", "finita"}

\* the steps of a handler at which its coroutine yields to the event loop
PuntoDiAttesa(pc) == pc \in {"libera", "form", "finita"}

InVolo(r) == richieste[r].pc \in {"form", "controllo"}

\* what the session holds once the checks have passed: the answer and the
\* objects to INSERT (an Item names its new Purchase by position)
Piano(db, res) ==
    [esito |-> res.esito,
     acquisti |-> [i \in 1..(res.db.seq.a - db.seq.a) |-> res.db.acquisti[db.seq.a + i]],
     prodotti |-> [i \in 1..(res.db.seq.p - db.seq.p) |->
                      [res.db.prodotti[db.seq.p + i] EXCEPT !.acquisto_id = @ - db.seq.a]],
     vendite |-> [i \in 1..(res.db.seq.v - db.seq.v) |-> res.db.vendite[db.seq.v + i]]]

RECURSIVE InsertAcquisti(_, _)
InsertAcquisti(db, recs) ==
    IF recs = <<>> THEN db
    ELSE InsertAcquisti(InsertAcquisto(db, Head(recs)), Tail(recs))

\* the INSERTs and the COMMIT of a plan against the rows committed by then
Esegui(db, piano) ==
    LET tx == InsertVendite(
                InsertProdotti(
                  InsertAcquisti(db, piano.acquisti),
                  [i \in 1..Len(piano.prodotti) |->
                      [piano.prodotti[i] EXCEPT !.acquisto_id = @ + db.seq.a]]),
                piano.vendite)
    IN  IF Integrita(tx) THEN [db |-> tx, esito |-> piano.esito]
        ELSE [db |-> db, esito |-> "errore_500"]

\* the handler is called and suspends on the await of the request body
Inizia(r) ==
    /\ loop = 0
    /\ PuntoDiAttesa(richieste[r].pc)
    /\ richieste[r].pc # "form"
    /\ \/ \E codice \in Codici, costo \in Costi, voce \in VociUna :
            /\ seq.a + Cardinality({q \in Richieste : InVolo(q) /\ richieste[q].tipo = "crea_acquisto"}) < MaxAcquisti
            /\ seq.p + Cardinality({q \in Richieste : InVolo(q) /\ richieste[q].tipo = "crea_acquisto"}) < MaxProdotti
            /\ richieste' = [richieste EXCEPT ![r] =
                   [Libera EXCEPT !.pc = "form", !.tipo = "crea_acquisto",
                                  !.dati = [codice |-> codice, costo |-> costo, voci |-> <<voce>>]]]
       \/ \E vendita \in VenditeJson, primo \in BOOLEAN :
            /\ seq.v + Cardinality({q \in Richieste : InVolo(q) /\ richieste[q].tipo = "ricevi_vendite_da_script"}) < MaxVendite
            /\ richieste' = [richieste EXCEPT ![r] =
                   [Libera EXCEPT !.pc = "form", !.tipo = "ricevi_vendite_da_script",
                                  !.dati = <<vendita>>, !.primo = primo]]
    /\ loop' = 0
    /\ UNCHANGED <<acquisti, prodotti, vendite, seq, last, acquisto, archivio, metriche>>

\* resumed after the await: the existence checks, against the committed rows
Controllo(r) ==
    /\ loop \in {0, r}
    /\ richieste[r].pc = "form"
    /\ LET ric == richieste[r]
           res == IF ric.tipo = "crea_acquisto"
                  THEN H_crea_acquisto(Db, ric.dati.codice, ric.dati.costo, ric.dati.voci)
                  ELSE H_ricevi_vendite_da_script(Db, ric.dati, ric.primo)
       IN  richieste' = [richieste EXCEPT ![r] =
               [ric EXCEPT !.pc = "controllo", !.piano = Piano(Db, res),
                           !.concorrente = \E q \in Richieste \ {r} : InVolo(q)]]
    /\ loop' = IF PuntoDiAttesa("controllo") THEN 0 ELSE r
    /\ UNCHANGED <<acquisti, prodotti, vendite, seq, last, acquisto, archivio, metriche>>

\* db.add(...) of what passed the checks, db.commit(), and the response
Termina(r) ==
    /\ loop \in {0, r}
    /\ richieste[r].pc = "controllo"
    /\ LET ric == richieste[r]
           res == Esegui(Db, ric.piano)
       IN  /\ acquisti' = res.db.acquisti
           /\ prodotti' = res.db.prodotti
           /\ vendite' = res.db.vendite
           /\ seq' = res.db.seq
           /\ last' = [op |-> ric.tipo, esito |-> res.esito, aggiornati |-> 0, errori |-> 0]
           /\ richieste' = [richieste EXCEPT ![r] =
                  [ric EXCEPT !.pc = "finita", !.piano = <<>>, !.esito = res.esito]]
    /\ loop' = 0
    /\ UNCHANGED <<acquisto, archivio, metriche>>


Init ==
    /\ acquisti = << >>
    /\ prodotti = << >>
    /\ vendite = << >>
    /\ seq = [a |-> 0, p |-> 0, v |-> 0]
    /\ last = [op |-> "avvio", esito |-> "ok", aggiornati |-> 0, errori |-> 0]
    /\ richieste = [r \in Richieste |-> Libera]
    /\ loop = 0
    /\ acquisto = None
    /\ archivio = << >>
    /\ metriche = [op |-> "avvio", esito |-> "ok"]

\* registration and editing of Purchases and their Items
crea_acquisto == crea_acquisto_da(VociCrea)
salva_seriali == salva_seriali_da(VociSeriali)
salva_seriali_multipli == salva_seriali_multipli_da(VociSeriali)
salva_modifica_acquisto == salva_modifica_acquisto_da(VociModifica)

Next ==
    \/ crea_acquisto
    \/ salva_seriali
    \/ salva_seriali_multipli
    \/ salva_modifica_acquisto
    \/ elimina_acquisto

Spec == Init /\ [][Next]_vars

\* import of Purchases from the spreadsheet script, next to manual editing
NextImport ==
    \/ crea_acquisto_da(VociUna)
    \/ salva_modifica_acquisto_da(VociModUna)
    \/ ricevi_acquisti_da_script
    \/ elimina_acquisto
    \/ salva_seriali_da(VociSerialiUna)
SpecImport == Init /\ [][NextImport]_vars

\* import of Sales from the billing script
NextVendite ==
    \/ crea_acquisto_da(VociUna)
    \/ ricevi_vendite_da_script
    \/ elimina_acquisto
    \/ elimina_vendita
SpecVendite == Init /\ [][NextVendite]_vars

\* two requests in flight on the event loop
NextConcorrenza ==
    \E r \in Richieste : Inizia(r) \/ Controllo(r) \/ Termina(r)

SpecConcorrenza == Init /\ [][NextConcorrenza]_vars

\* ================================================================ metrics
\* The metric computations read one loaded Purchase: its columns, its Items
\* (acquisto.prodotti) and each Item's Sales (prodotto.vendite).  Dates are
\* day numbers.  An optional number or date is <<>> when it is None and
\* <<x>> when it is x.  Python floats are kept exact, as fractions in lowest
\* terms; a division by zero raises ZeroDivisionError.

\* the day the request is served (datetime.now(), date.today())
oggi == 200

Nessuno == <<>>
Qualche(x) == <<x>>
Val(o) == o[1]
\* x or 0
OrZero(o) == IF o = Nessuno THEN 0 ELSE Val(o)

ZeroDivisionError == [errore |-> "ZeroDivisionError"]
Sollevata(q) == "errore" \in DOMAIN q

Abs(x) == IF x < 0 THEN -x ELSE x

RECURSIVE MCD(_, _)
MCD(a, b) == IF b = 0 THEN a ELSE MCD(b, a % b)

\* the float n/d, d # 0
Fraz(n, d) ==
    LET g == MCD(Abs(n), Abs(d))
        s == IF d < 0 THEN -1 ELSE 1
    IN  [n |-> (s * n) \div g, d |-> (s * d) \div g]

Num(x) == [n |-> x, d |-> 1]
Per(a, b) == Fraz(a.n * b.n, a.d * b.d)
Meno(a, b) == Fraz(a.n * b.d - b.n * a.d, a.d * b.d)
\* a / b
Diviso(a, b) == IF b.n = 0 THEN ZeroDivisionError ELSE Fraz(a.n * b.d, a.d * b.n)
Minore(a, b) == a.n * b.d < b.n * a.d
Uguale(a, b) == a.n * b.d = b.n * a.d

min(a, b) == IF a < b THEN a ELSE b
max(a, b) == IF a > b THEN a ELSE b

RECURSIVE Somma(_)
Somma(s) == IF s = <<>> THEN 0 ELSE Head(s) + Somma(Tail(s))

\* ------------------------------------------- properties of the records
Vendita_ricavo_netto(v) == v.prezzo_vendita - v.commissioni

Prodotto_venduto(p) == Len(p.vendite) > 0

Prodotto_ricavo_vendita(p) ==
    Somma([i \in 1..Len(p.vendite) |-> p.vendite[i].prezzo_vendita - p.vendite[i].commissioni])

Acquisto_costo_totale(a) == a.costo_acquisto + a.costi_accessori

Acquisto_numero_prodotti(a) == Len(a.prodotti)

Acquisto_prodotti_venduti(a) == Len(SelectSeq(a.prodotti, Prodotto_venduto))

Acquisto_completamente_venduto(a) ==
    Len(a.prodotti) > 0 /\ \A i \in 1..Len(a.prodotti) : Prodotto_venduto(a.prodotti[i])

Acquisto_ricavo_totale(a) ==
    Somma([i \in 1..Len(a.prodotti) |->
              IF Prodotto_venduto(a.prodotti[i]) THEN Prodotto_ricavo_vendita(a.prodotti[i])
              ELSE 0])

Acquisto_margine_totale(a) == Acquisto_ricavo_totale(a) - Acquisto_costo_totale(a)

\* an Item sent to the repair shop: one of its Sales is on the reserved channel
Fotorip(p) == \E i \in 1..Len(p.vendite) : p.vendite[i].canale_vendita = "RIPARAZIONI"

\* ---------------------------- computed properties of app/models/model_nuovo.py
SenzaSerialeNuovo(p) == ~Truthy(p.seriale) \/ strip(p.seriale) \in {"", "???", "N/A"}

Acquisto_prodotti_senza_seriali(a) == Len(SelectSeq(a.prodotti, SenzaSerialeNuovo))

Acquisto_giorni_attesa(a) ==
    IF a.data_consegna # Nessuno THEN Nessuno
    ELSE IF a.data_pagamento # Nessuno THEN Qualche(oggi - Val(a.data_pagamento))
    ELSE Qualche(oggi - a.created_at)

Acquisto_giorni_stock(a) ==
    IF a.data_consegna = Nessuno THEN Nessuno ELSE Qualche(oggi - Val(a.data_consegna))

\* the sum of the terms, returned as it is
PunteggioFinale_senza_limite(score) == score

\* return min(100, score)
PunteggioFinale(score) == min(100, score)

Acquisto_urgenza_score(a) ==
    LET segnalato ==
            IF ~a.problema_segnalato THEN 0
            ELSE 50 + (IF a.problema_tipo \in {"pacco_perso", "prodotti_danneggiati"} THEN 30
                       ELSE IF a.problema_tipo \in {"prodotti_non_conformi", "problema_venditore"} THEN 20
                       ELSE IF a.problema_tipo = "ritardo_consegna" THEN 15
                       ELSE 0)
        giorni_attesa == OrZero(Acquisto_giorni_attesa(a))
        non_arrivato ==
            IF a.data_consegna = Nessuno /\ ~a.problema_segnalato
            THEN (IF giorni_attesa > 21 THEN 40
                  ELSE IF giorni_attesa > 14 THEN 30
                  ELSE IF giorni_attesa > 7 THEN 20
                  ELSE 0)
            ELSE 0
        senza_seriali ==
            IF Acquisto_prodotti_senza_seriali(a) > 0
            THEN min(30, Acquisto_prodotti_senza_seriali(a) * 10)
            ELSE 0
        giorni_stock == OrZero(Acquisto_giorni_stock(a))
        prodotti_non_venduti == Len(a.prodotti) - Acquisto_prodotti_venduti(a)
        vendite_lente ==
            IF giorni_stock # 0 /\ giorni_stock > 30
               /\ ~Acquisto_completamente_venduto(a) /\ prodotti_non_venduti > 0
            THEN min(30, ((giorni_stock - 30) \div 15) * 10)
            ELSE 0
    IN  PunteggioFinale(segnalato + non_arrivato + senza_seriali + vendite_lente)

\* Prodotto.costo_unitario, for an Item of Purchase a
Prodotto_costo_unitario(a) ==
    IF Acquisto_numero_prodotti(a) = 0 THEN Num(0)
    ELSE Diviso(Num(Acquisto_costo_totale(a)), Num(Acquisto_numero_prodotti(a)))

Prodotto_margine_vendita(a, p) == Meno(Num(Prodotto_ricavo_vendita(p)), Prodotto_costo_unitario(a))

Prodotto_margine_percentuale(a, p) ==
    IF Uguale(Prodotto_costo_unitario(a), Num(0)) THEN Num(0)
    ELSE LET q == Diviso(Prodotto_margine_vendita(a, p), Prodotto_costo_unitario(a))
         IN  IF Sollevata(q) THEN q ELSE Per(q, Num(100))

\* ------------------------------------------- _calcola_metriche_acquisto
SenzaSeriale(p) == ~Truthy(p.seriale)

calcola_metriche_acquisto(a) ==
    LET prodotti_senza_seriali == Len(SelectSeq(a.prodotti, SenzaSeriale))
        giorni_stock ==
            IF a.data_consegna # Nessuno THEN Qualche(oggi - Val(a.data_consegna)) ELSE Nessuno
        giorni_attesa ==
            IF a.data_consegna # Nessuno THEN Nessuno
            ELSE IF a.data_pagamento # Nessuno THEN Qualche(oggi - Val(a.data_pagamento))
            ELSE Qualche(oggi - a.created_at)
        non_arrivato ==
            IF a.data_consegna = Nessuno
            THEN (IF Val(giorni_attesa) > 21 THEN 40
                  ELSE IF Val(giorni_attesa) > 14 THEN 30
                  ELSE IF Val(giorni_attesa) > 7 THEN 20
                  ELSE 0)
            ELSE 0
        senza_seriali ==
            IF prodotti_senza_seriali > 0 THEN min(30, prodotti_senza_seriali * 10) ELSE 0
        prodotti_non_venduti == Len(a.prodotti) - Acquisto_prodotti_venduti(a)
        vendite_lente ==
            IF OrZero(giorni_stock) # 0 /\ Val(giorni_stock) > 30 /\ prodotti_non_venduti > 0
            THEN min(30, ((Val(giorni_stock) - 30) \div 15) * 10)
            ELSE 0
        urgenza_score == min(100, non_arrivato + senza_seriali + vendite_lente)
        problemi ==
            (IF a.data_consegna = Nessuno THEN << <<"Non arrivato">> >> ELSE <<>>)
            \o (IF prodotti_senza_seriali > 0
                THEN << <<prodotti_senza_seriali, "senza seriali">> >> ELSE <<>>)
            \o (IF OrZero(giorni_stock) = 0 THEN <<>>
                ELSE IF Val(giorni_stock) > 60 /\ ~Acquisto_completamente_venduto(a)
                     THEN << <<"Vendita molto lenta">> >>
                ELSE IF Val(giorni_stock) > 30 /\ ~Acquisto_completamente_venduto(a)
                     THEN << <<"Vendita lenta">> >>
                ELSE <<>>)
        margine_perc ==
            LET q == Diviso(Num(Acquisto_margine_totale(a)), Num(Acquisto_costo_totale(a)))
            IN  IF Sollevata(q) THEN q ELSE Per(q, Num(100))
        marginalita ==
            IF Acquisto_margine_totale(a) > 0
            THEN (IF ~Minore(margine_perc, Num(25)) THEN 30
                  ELSE IF ~Minore(margine_perc, Num(15)) THEN 20
                  ELSE IF ~Minore(margine_perc, Num(5)) THEN 10
                  ELSE -10)
            ELSE 0
        velocita ==
            IF Acquisto_completamente_venduto(a) /\ OrZero(giorni_stock) # 0
            THEN (IF Val(giorni_stock) <= 30 THEN 20
                  ELSE IF Val(giorni_stock) <= 60 THEN 10
                  ELSE -10)
            ELSE 0
        performance_score ==
            IF Acquisto_prodotti_venduti(a) > 0
            THEN Qualche(max(0, min(100, 50 + marginalita + velocita)))
            ELSE Nessuno
    IN  IF Acquisto_prodotti_venduti(a) > 0 /\ Acquisto_margine_totale(a) > 0
           /\ Sollevata(margine_perc)
        THEN [op |-> "calcola_metriche_acquisto", esito |-> "ZeroDivisionError"]
        ELSE [op |-> "calcola_metriche_acquisto", esito |-> "ok",
              prodotti_senza_seriali |-> prodotti_senza_seriali,
              giorni_stock |-> giorni_stock,
              giorni_attesa |-> giorni_attesa,
              urgenza_score |-> urgenza_score,
              problemi_list |-> problemi,
              problematico |-> Len(problemi) > 0,
              performance_score |-> performance_score]

\* --------------------------------------------------------------- reports
\* The report handlers read the Purchases of the database, each loaded with
\* its Items and Sales: db is that list.

\* the amount replaces what was accumulated
Piu_sovrascrive(a, b) == a

\* a + b
Piu(a, b) == Fraz(a.n * b.d + b.n * a.d, a.d * b.d)

RECURSIVE SommaFraz(_)
SommaFraz(s) == IF s = <<>> THEN Num(0) ELSE Piu(Head(s), SommaFraz(Tail(s)))

\* the lists of s, one after the other
RECURSIVE Concatena(_)
Concatena(s) == IF s = <<>> THEN <<>> ELSE Head(s) \o Concatena(Tail(s))

\* the list as it was built, not sorted
Ordina_come_costruita(s, prima) == s

\* list.sort(key=...): stable; prima[i][j] when the key of s[i] is below
\* that of s[j]
Ordina(s, prima) ==
    LET pos(i) == 1 + Cardinality({j \in 1..Len(s) :
                        prima[j][i] \/ (~prima[i][j] /\ j < i)})
    IN  [k \in 1..Len(s) |-> s[CHOOSE i \in 1..Len(s) : pos(i) = k]]

\* f"{x:.1f}": the number of tenths nearest to x, ties to the even one
Decimi(x) ==
    LET q == (x.n * 10) \div x.d
        r == (x.n * 10) % x.d
    IN  IF 2 * r < x.d THEN q
        ELSE IF 2 * r > x.d THEN q + 1
        ELSE IF q % 2 = 0 THEN q ELSE q + 1

\* [p for p in acquisto.prodotti if not any(v.canale_vendita == "RIPARAZIONI" ...)]
NonFotorip(p) == ~Fotorip(p)
ProdottiBusiness(a) == SelectSeq(a.prodotti, NonFotorip)

\* sum(sum(v.ricavo_netto for v in p.vendite if v.canale_vendita != "RIPARAZIONI")
\*     for p in prodotti_business if p.vendite)
RicaviBusiness(a) ==
    LET pb == ProdottiBusiness(a)
    IN  Somma([i \in 1..Len(pb) |->
                  Somma([j \in 1..Len(pb[i].vendite) |->
                            IF pb[i].vendite[j].canale_vendita # "RIPARAZIONI"
                            THEN Vendita_ricavo_netto(pb[i].vendite[j]) ELSE 0])])

\* the total cost spread over the business Items only
CostoPerProdotto_sui_business(a) ==
    Diviso(Num(Acquisto_costo_totale(a)), Num(Len(SelectSeq(a.prodotti, NonFotorip))))

\* acquisto.costo_totale / len(acquisto.prodotti)
CostoPerProdotto(a) == Diviso(Num(Acquisto_costo_totale(a)), Num(Len(a.prodotti)))

\* costo_per_prodotto * len(prodotti_business)
CostoBusiness(a) == Per(CostoPerProdotto(a), Num(Len(ProdottiBusiness(a))))

\* the ratio of margin to cost, not brought to a percentage
MarginePercentuale_senza_cento(margine, costo) ==
    IF Minore(Num(0), costo) THEN Diviso(margine, costo) ELSE Num(0)

\* (margine / costo * 100) if costo > 0 else 0
MarginePercentuale(margine, costo) ==
    IF Minore(Num(0), costo) THEN Per(Diviso(margine, costo), Num(100)) ELSE Num(0)

ConVendite(a) == \E i \in 1..Len(a.prodotti) : Len(a.prodotti[i].vendite) > 0

\* Acquisto.data_consegna.isnot(None),
\* ~Acquisto.prodotti.any(Prodotto.vendite.any(Vendita.canale_vendita == "RIPARAZIONI"))
ArrivatoSenzaFotorip(a) ==
    /\ a.data_consegna # Nessuno
    /\ ~\E i \in 1..Len(a.prodotti) : Fotorip(a.prodotti[i])

\* ----------------------------------------------------------------- problemi
VenditeLente(db) ==
    LET righe(a) ==
            LET giorni_stock == oggi - Val(a.data_consegna)
                in_stock == SelectSeq(a.prodotti, LAMBDA p : Len(p.vendite) = 0)
            IN  IF a.data_consegna = Nessuno \/ giorni_stock <= 30 THEN <<>>
                ELSE [i \in 1..Len(in_stock) |->
                         [acquisto |-> a.id, prodotto |-> in_stock[i],
                          giorni_stock |-> giorni_stock,
                          costo_unitario |-> Diviso(Num(Acquisto_costo_totale(a)),
                                                    Num(Acquisto_numero_prodotti(a)))]]
        tutte == Concatena([i \in 1..Len(db) |-> righe(db[i])])
    IN  Ordina(tutte, [i \in 1..Len(tutte) |-> [j \in 1..Len(tutte) |->
                          tutte[i].giorni_stock > tutte[j].giorni_stock]])

MarginiCritici(db) ==
    LET riga(a) ==
            LET prodotti_business == ProdottiBusiness(a)
                prodotti_totali == Len(prodotti_business)
                prodotti_venduti == Len(SelectSeq(prodotti_business, Prodotto_venduto))
                ricavi_business == RicaviBusiness(a)
                investimento_business == CostoBusiness(a)
                margine == Meno(Num(ricavi_business), investimento_business)
                margine_percentuale == MarginePercentuale(margine, investimento_business)
            IN  IF prodotti_business = <<>> THEN <<>>
                ELSE IF ~Minore(margine_percentuale, Num(25)) THEN <<>>
                ELSE << [acquisto |-> a.id,
                         prodotti_totali |-> prodotti_totali,
                         prodotti_venduti |-> prodotti_venduti,
                         vendita_completa |-> prodotti_venduti = prodotti_totali,
                         investimento |-> investimento_business,
                         ricavi |-> ricavi_business,
                         margine |-> margine,
                         margine_percentuale |-> margine_percentuale] >>
        acquisti_con_vendite == SelectSeq(db, ConVendite)
        tutte == Concatena([i \in 1..Len(acquisti_con_vendite) |->
                               riga(acquisti_con_vendite[i])])
    IN  Ordina(tutte, [i \in 1..Len(tutte) |-> [j \in 1..Len(tutte) |->
                          Minore(tutte[i].margine_percentuale, tutte[j].margine_percentuale)]])

problemi_report(db) ==
    [op |-> "problemi", esito |-> "ok",
     vendite_lente |-> VenditeLente(db),
     margini_critici |-> MarginiCritici(db),
     problemi_count |-> Len(VenditeLente(db)) + Len(MarginiCritici(db))]

\* ------------------------------------------------------ performance_dashboard
PerformanceData(db) ==
    LET riga(a) ==
            LET prodotti_business == ProdottiBusiness(a)
                prodotti_totali == Len(prodotti_business)
                prodotti_venduti == Len(SelectSeq(prodotti_business, Prodotto_venduto))
                ricavi_totali == RicaviBusiness(a)
                costo_business == CostoBusiness(a)
                margine == Meno(Num(ricavi_totali), costo_business)
                margine_percentuale == MarginePercentuale(margine, costo_business)
                vendita_completa == prodotti_venduti = prodotti_totali
                date_vendite ==
                    UNION {{prodotti_business[i].vendite[j].data_vendita :
                               j \in {k \in 1..Len(prodotti_business[i].vendite) :
                                         prodotti_business[i].vendite[k].canale_vendita # "RIPARAZIONI"}} :
                           i \in 1..Len(prodotti_business)}
                giorni_vendita ==
                    IF vendita_completa /\ date_vendite # {}
                    THEN Qualche((CHOOSE d \in date_vendite : \A e \in date_vendite : e <= d)
                                 - Val(a.data_consegna))
                    ELSE Nessuno
                performance_issues ==
                    (IF ~vendita_completa
                     THEN << <<"Vendita parziale", prodotti_venduti, prodotti_totali>> >>
                     ELSE IF OrZero(giorni_vendita) # 0 /\ Val(giorni_vendita) > 30
                          THEN << <<"Vendita lenta", Val(giorni_vendita)>> >>
                     ELSE <<>>)
                    \o (IF Minore(margine_percentuale, Num(25))
                        THEN << <<"Margine basso", Decimi(margine_percentuale)>> >>
                        ELSE <<>>)
            IN  IF prodotti_business = <<>> THEN <<>>
                ELSE << [acquisto |-> a.id,
                         prodotti_totali |-> prodotti_totali,
                         prodotti_venduti |-> prodotti_venduti,
                         vendita_completa |-> vendita_completa,
                         ricavi_totali |-> ricavi_totali,
                         margine |-> margine,
                         margine_percentuale |-> margine_percentuale,
                         giorni_vendita |-> giorni_vendita,
                         performance_status |->
                             IF performance_issues = <<>> THEN "OK" ELSE "PROBLEMI",
                         performance_issues |-> performance_issues,
                         costo_business |-> costo_business,
                         ha_fotorip |-> Len(prodotti_business) < Len(a.prodotti)] >>
        arrivati == SelectSeq(db, ArrivatoSenzaFotorip)
        \* key (status != "PROBLEMI", margine_percentuale)
        prima(x, y) ==
            \/ x.performance_status = "PROBLEMI" /\ y.performance_status # "PROBLEMI"
            \/ /\ (x.performance_status = "PROBLEMI") = (y.performance_status = "PROBLEMI")
               /\ Minore(x.margine_percentuale, y.margine_percentuale)
        tutte == Concatena([i \in 1..Len(arrivati) |-> riga(arrivati[i])])
    IN  Ordina(tutte, [i \in 1..Len(tutte) |-> [j \in 1..Len(tutte) |->
                          prima(tutte[i], tutte[j])]])

performance_dashboard(db) ==
    LET performance_data == PerformanceData(db)
        total_acquisti == Len(performance_data)
        acquisti_ok == Len(SelectSeq(performance_data, LAMBDA p : p.performance_status = "OK"))
        somma == SommaFraz([i \in 1..total_acquisti |-> performance_data[i].margine_percentuale])
    IN  [op |-> "performance_dashboard", esito |-> "ok",
         performance_data |-> performance_data,
         stats |-> [total_acquisti |-> total_acquisti,
                    acquisti_ok |-> acquisti_ok,
                    acquisti_problemi |-> total_acquisti - acquisti_ok,
                    percentuale_ok |->
                        IF total_acquisti > 0
                        THEN Per(Diviso(Num(acquisti_ok), Num(total_acquisti)), Num(100))
                        ELSE Num(0),
                    margine_medio |->
                        IF total_acquisti > 0 THEN Diviso(somma, Num(total_acquisti))
                        ELSE Num(0)]]

\* ------------------------------------------------------ statistiche_periodiche
\* The calendar: day 1 is Monday 1 January 2024.
\* data.strftime("%Y-%m")
ChiaveMese(d) ==
    LET fine == <<31, 60, 91, 121, 152, 182, 213, 244, 274, 305, 335, 366>>
    IN  <<2024, CHOOSE m \in 1..12 : d <= fine[m] /\ (m = 1 \/ d > fine[m - 1])>>

\* data.isocalendar(): year and ISO week
ChiaveSettimana(d) ==
    IF d > 364 THEN <<2025, 1>> ELSE <<2024, ((d - 1) \div 7) + 1>>

Periodi == {"mese", "settimana"}

statistiche_periodiche(db, periodo) ==
    LET inclusi == SelectSeq(SelectSeq(db, ArrivatoSenzaFotorip),
                          LAMBDA a : ProdottiBusiness(a) # <<>>)
        chiave(a) == IF periodo = "settimana" THEN ChiaveSettimana(Val(a.data_consegna))
                     ELSE ChiaveMese(Val(a.data_consegna))
        chiavi == {chiave(inclusi[i]) : i \in 1..Len(inclusi)}
        riga(k) ==
            LET del_periodo == SelectSeq(inclusi, LAMBDA a : chiave(a) = k)
                investimento == SommaFraz([i \in 1..Len(del_periodo) |->
                                              CostoBusiness(del_periodo[i])])
                ricavi == Somma([i \in 1..Len(del_periodo) |-> RicaviBusiness(del_periodo[i])])
                margine == SommaFraz([i \in 1..Len(del_periodo) |->
                                         Meno(Num(RicaviBusiness(del_periodo[i])),
                                              CostoBusiness(del_periodo[i]))])
            IN  [periodo |-> k,
                 count |-> Len(del_periodo),
                 investimento |-> investimento,
                 ricavi |-> ricavi,
                 margine |-> margine,
                 margine_percentuale |-> MarginePercentuale(margine, investimento),
                 acquisti |-> [i \in 1..Len(del_periodo) |-> del_periodo[i].id]]
        \* sorted(periodi.items(), reverse=True)
        dopo(k, h) == k[1] > h[1] \/ (k[1] = h[1] /\ k[2] > h[2])
        RECURSIVE lista(_)
        lista(K) ==
            IF K = {} THEN <<>>
            ELSE LET k == CHOOSE k \in K : \A h \in K \ {k} : dopo(k, h)
                 IN  <<riga(k)>> \o lista(K \ {k})
    IN  [op |-> "statistiche_periodiche", esito |-> "ok",
         statistiche |-> lista(chiavi),
         periodo_selezionato |-> periodo]

\* ------------------------------------------------------ the loaded Purchases
MaxSeriali == 4
MaxArticoli == 3

Seriali == {None, "", " ", "N/A", "???", "S1"}
GiorniAttesa == {0, 8, 15, 30}
GiorniStock == {0, 20, 45, 100}
CostiAcquisto == {0, 120}
PrezziVendita == {100, 120, 123, 130, 140, 150}

VenditaEbay(prezzo) ==
    [canale_vendita |-> "ebay", prezzo_vendita |-> prezzo, commissioni |-> 0,
     data_vendita |-> oggi]

\* the Sale that the import attaches to an Item flagged is_fotorip
VenditaFotorip(costo_totale_acquisto, data_consegna) ==
    [canale_vendita |-> "RIPARAZIONI", prezzo_vendita |-> costo_totale_acquisto,
     commissioni |-> 0,
     data_vendita |-> IF data_consegna # Nessuno THEN Val(data_consegna) ELSE oggi]

\* payment and delivery dates: waiting since the payment, waiting with no
\* payment date recorded, or delivered
DateAttesa ==
    {[data_pagamento |-> Qualche(oggi - g), data_consegna |-> Nessuno, created_at |-> oggi - g] :
        g \in GiorniAttesa}
    \cup {[data_pagamento |-> Nessuno, data_consegna |-> Nessuno, created_at |-> oggi - 15]}

DateArrivo ==
    {[data_pagamento |-> Qualche(oggi - g), data_consegna |-> Qualche(oggi - g),
      created_at |-> oggi - g] : g \in GiorniStock}

Segnalazioni ==
    {[problema_segnalato |-> FALSE, problema_tipo |-> None]}
    \cup [problema_segnalato : {TRUE},
          problema_tipo : {"pacco_perso", "prodotti_non_conformi", "ritardo_consegna", None}]

Carica(costo, date, segnalazione, articoli) ==
    [id |-> 1, costo_acquisto |-> costo, costi_accessori |-> 0,
     data_pagamento |-> date.data_pagamento, data_consegna |-> date.data_consegna,
     created_at |-> date.created_at,
     problema_segnalato |-> segnalazione.problema_segnalato,
     problema_tipo |-> segnalazione.problema_tipo,
     prodotti |-> articoli]

\* Purchases that differ in flag, dates, serials and in being sold or not
AcquistiUrgenza ==
    {Carica(120, date, segnalazione,
            [i \in 1..Len(seriali) |->
                [seriale |-> seriali[i],
                 vendite |-> IF venduti THEN <<VenditaEbay(150)>> ELSE <<>>]]) :
        date \in DateAttesa \cup DateArrivo, segnalazione \in Segnalazioni,
        seriali \in SeqFino(Seriali, MaxSeriali), venduti \in BOOLEAN}

\* Purchases that differ in cost, delivery and in what became of each Item:
\* in stock, sold at some price, or sent to the repair shop at import
Sorti ==
    {[tipo |-> "stock", prezzo |-> 0], [tipo |-> "fotorip", prezzo |-> 0]}
    \cup [tipo : {"venduto"}, prezzo : PrezziVendita]

AcquistiMargini ==
    {Carica(costo, date, [problema_segnalato |-> FALSE, problema_tipo |-> None],
            [i \in 1..Len(sorti) |->
                [seriale |-> "S1",
                 vendite |-> IF sorti[i].tipo = "stock" THEN <<>>
                             ELSE IF sorti[i].tipo = "fotorip"
                                  THEN <<VenditaFotorip(costo, date.data_consegna)>>
                             ELSE <<VenditaEbay(sorti[i].prezzo)>>]]) :
        costo \in CostiAcquisto,
        date \in DateArrivo \cup {[data_pagamento |-> Qualche(oggi - 8),
                                   data_consegna |-> Nessuno, created_at |-> oggi - 8]},
        sorti \in SeqFino(Sorti, MaxArticoli)}

\* ------------------------------------------------- the metric computations
NessunaMetrica == [op |-> "avvio", esito |-> "ok"]

\* the Purchases of the database, as the queries load them
Archivio == archivio

\* lista_acquisti attaches the metrics to the Purchase it lists
calcola_metriche ==
    /\ metriche' = calcola_metriche_acquisto(acquisto)
    /\ UNCHANGED <<acquisti, prodotti, vendite, seq, last, richieste, loop, acquisto, archivio>>

\* the urgenza_score attribute of app/models/model_nuovo.py is read
urgenza_score ==
    /\ metriche' = [op |-> "urgenza_score", esito |-> "ok",
                    prodotti_senza_seriali |-> Acquisto_prodotti_senza_seriali(acquisto),
                    urgenza_score |-> Acquisto_urgenza_score(acquisto)]
    /\ UNCHANGED <<acquisti, prodotti, vendite, seq, last, richieste, loop, acquisto, archivio>>

\* the cost and margin attributes of the Items are read
margini_prodotti ==
    /\ metriche' = [op |-> "margini_prodotti", esito |-> "ok",
                    costo_unitario |-> Prodotto_costo_unitario(acquisto),
                    margine_vendita |->
                        [i \in 1..Len(acquisto.prodotti) |->
                            Prodotto_margine_vendita(acquisto, acquisto.prodotti[i])],
                    margine_percentuale |->
                        [i \in 1..Len(acquisto.prodotti) |->
                            Prodotto_margine_percentuale(acquisto, acquisto.prodotti[i])]]
    /\ UNCHANGED <<acquisti, prodotti, vendite, seq, last, richieste, loop, acquisto, archivio>>

problemi ==
    /\ metriche' = problemi_report(Archivio)
    /\ UNCHANGED <<acquisti, prodotti, vendite, seq, last, richieste, loop, acquisto, archivio>>

performance ==
    /\ metriche' = performance_dashboard(Archivio)
    /\ UNCHANGED <<acquisti, prodotti, vendite, seq, last, richieste, loop, acquisto, archivio>>

statistiche ==
    /\ \E periodo \in Periodi : metriche' = statistiche_periodiche(Archivio, periodo)
    /\ UNCHANGED <<acquisti, prodotti, vendite, seq, last, richieste, loop, acquisto, archivio>>

InitCon(A) ==
    /\ acquisti = << >>
    /\ prodotti = << >>
    /\ vendite = << >>
    /\ seq = [a |-> 0, p |-> 0, v |-> 0]
    /\ last = [op |-> "avvio", esito |-> "ok", aggiornati |-> 0, errori |-> 0]
    /\ richieste = [r \in Richieste |-> Libera]
    /\ loop = 0
    /\ acquisto \in A
    /\ archivio = <<acquisto>>
    /\ metriche = NessunaMetrica

\* the urgency of a Purchase, as lista_acquisti computes it and as the
\* attribute of model_nuovo.py does
InitUrgenza == InitCon(AcquistiUrgenza)
NextUrgenza ==
    \/ calcola_metriche
    \/ urgenza_score
SpecUrgenza == InitUrgenza /\ [][NextUrgenza]_vars

\* costs, margins and the reports built on them
InitMargini == InitCon(AcquistiMargini)
NextMargini ==
    \/ calcola_metriche
    \/ margini_prodotti
    \/ problemi
    \/ performance
    \/ statistiche
SpecMargini == InitMargini /\ [][NextMargini]_vars

\* ------------------------------------------- the Purchases of the reports
\* Purchases that differ in cost, in the day of arrival and in what became
\* of each Item: in stock, sent to the repair shop at import, or sold at some
\* price some days after the arrival
GiorniArrivo == {30, 40, 47, 48}
CostiRapporti == {100, 220}

SortiRapporti ==
    {[tipo |-> "stock", prezzo |-> 0, dopo |-> 0],
     [tipo |-> "fotorip", prezzo |-> 0, dopo |-> 0],
     [tipo |-> "venduto", prezzo |-> 90, dopo |-> 30],
     [tipo |-> "venduto", prezzo |-> 125, dopo |-> 30],
     [tipo |-> "venduto", prezzo |-> 125, dopo |-> 35]}

DateRapporti ==
    {[data_pagamento |-> Qualche(oggi - g), data_consegna |-> Qualche(oggi - g),
      created_at |-> oggi - g] : g \in GiorniArrivo}
    \cup {[data_pagamento |-> Qualche(oggi - 8), data_consegna |-> Nessuno,
           created_at |-> oggi - 8]}

\* a Sale registered by the sales import, dated data
VenditaIl(prezzo, data) ==
    [canale_vendita |-> "ebay", prezzo_vendita |-> prezzo, commissioni |-> 0,
     data_vendita |-> data]

AcquistiRapporti ==
    {Carica(costo, date, [problema_segnalato |-> FALSE, problema_tipo |-> None],
            [i \in 1..Len(sorti) |->
                [id |-> i, seriale |-> "S1",
                 vendite |-> IF sorti[i].tipo = "stock" THEN <<>>
                             ELSE IF sorti[i].tipo = "fotorip"
                                  THEN <<VenditaFotorip(costo, date.data_consegna)>>
                             ELSE <<VenditaIl(sorti[i].prezzo,
                                              IF date.data_consegna = Nessuno THEN oggi
                                              ELSE Val(date.data_consegna) + sorti[i].dopo)>>]]) :
        costo \in CostiRapporti, date \in DateRapporti,
        sorti \in SeqFino(SortiRapporti, MaxProdotti)}

\* the Purchases with one Item and the lower cost
AltriAcquisti ==
    {a \in AcquistiRapporti : Len(a.prodotti) = 1 /\ a.costo_acquisto = 100}

\* the rows of the tables: every Purchase and every Item has its own id
Numerati(s) ==
    [i \in 1..Len(s) |->
        [s[i] EXCEPT !.id = i,
                     !.prodotti = [j \in 1..Len(@) |-> [@[j] EXCEPT !.id = 10 * i + j]]]]

\* the reports over a database of one or two Purchases
InitRapporti ==
    /\ acquisti = << >>
    /\ prodotti = << >>
    /\ vendite = << >>
    /\ seq = [a |-> 0, p |-> 0, v |-> 0]
    /\ last = [op |-> "avvio", esito |-> "ok", aggiornati |-> 0, errori |-> 0]
    /\ richieste = [r \in Richieste |-> Libera]
    /\ loop = 0
    /\ acquisto = None
    /\ archivio \in {Numerati(<<a>>) : a \in AcquistiRapporti}
                    \cup {Numerati(<<a, b>>) : a \in AcquistiRapporti, b \in AltriAcquisti}
                    \cup {Numerati(<<b, a>>) : a \in AcquistiRapporti, b \in AltriAcquisti}
    /\ metriche = NessunaMetrica

NextRapporti ==
    \/ problemi
    \/ performance
    \/ statistiche
SpecRapporti == InitRapporti /\ [][NextRapporti]_vars

\* ------------------------------------------------------------ lista_acquisti
FiltriStato ==
    {"tutti", "in_stock", "venduti", "parziali", "senza_seriali", "non_arrivati",
     "problematici"}

\* Acquisto.prodotti.any(~Prodotto.vendite.any())
ConInvenduti(a) == \E i \in 1..Len(a.prodotti) : Len(a.prodotti[i].vendite) = 0

\* Acquisto.prodotti.any(Prodotto.seriale.is_(None))
ConSerialeNull(a) == \E i \in 1..Len(a.prodotti) : a.prodotti[i].seriale = None

\* or_(prodotti.any(seriale IS NULL), data_consegna IS NULL,
\*     and_(data_consegna IS NOT NULL, data_consegna < today - 30 days,
\*          prodotti.any(~vendite.any())))
FiltroProblematici(a) ==
    \/ ConSerialeNull(a)
    \/ a.data_consegna = Nessuno
    \/ /\ a.data_consegna # Nessuno
       /\ Val(a.data_consegna) < oggi - 30
       /\ ConInvenduti(a)

\* the WHERE clause that filtro_stato adds to the query
FiltroStato(filtro_stato, a) ==
    CASE filtro_stato = "in_stock" -> ConInvenduti(a)
      [] filtro_stato = "venduti" -> ~ConInvenduti(a)
      [] filtro_stato = "parziali" -> ConVendite(a) /\ ConInvenduti(a)
      [] filtro_stato = "senza_seriali" -> ConSerialeNull(a)
      [] filtro_stato = "non_arrivati" -> a.data_consegna = Nessuno
      [] filtro_stato = "problematici" -> FiltroProblematici(a)
      [] OTHER -> TRUE

\* the page with no search text and the default order (created_at, latest
\* first); the metrics are attached to every Purchase listed
lista_acquisti(db, filtro_stato) ==
    LET scelti == SelectSeq(db, LAMBDA a : FiltroStato(filtro_stato, a))
        ordinati == Ordina(scelti, [i \in 1..Len(scelti) |-> [j \in 1..Len(scelti) |->
                                      scelti[i].created_at > scelti[j].created_at]])
        calcolate == [i \in 1..Len(ordinati) |-> calcola_metriche_acquisto(ordinati[i])]
    IN  IF \E i \in 1..Len(calcolate) : calcolate[i].esito # "ok"
        THEN [op |-> "lista_acquisti", esito |-> "ZeroDivisionError"]
        ELSE [op |-> "lista_acquisti", esito |-> "ok",
              acquisti |-> [i \in 1..Len(ordinati) |->
                               [acquisto |-> ordinati[i].id, metriche |-> calcolate[i]]],
              acquisti_totali |-> Len(db),
              filtro_stato |-> filtro_stato]

lista ==
    /\ \E filtro_stato \in FiltriStato : metriche' = lista_acquisti(Archivio, filtro_stato)
    /\ UNCHANGED <<acquisti, prodotti, vendite, seq, last, richieste, loop, acquisto, archivio>>

\* Purchases that differ in the day of arrival and, Item by Item, in the
\* stored serial and in being in stock, sold or sent to the repair shop
GiorniLista == {20, 30, 31}
SerialiLista == {None, "", "N/A", "S1"}
SortiLista == {"stock", "venduto", "fotorip"}

DateLista ==
    {[data_pagamento |-> Qualche(oggi - g), data_consegna |-> Qualche(oggi - g),
      created_at |-> oggi - g] : g \in GiorniLista}
    \cup {[data_pagamento |-> Qualche(oggi - 8), data_consegna |-> Nessuno,
           created_at |-> oggi - 8]}

AcquistiLista ==
    {Carica(120, date, [problema_segnalato |-> FALSE, problema_tipo |-> None],
            [i \in 1..Len(articoli) |->
                [id |-> i, seriale |-> articoli[i].seriale,
                 vendite |-> IF articoli[i].sorte = "stock" THEN <<>>
                             ELSE IF articoli[i].sorte = "fotorip"
                                  THEN <<VenditaFotorip(120, date.data_consegna)>>
                             ELSE <<VenditaEbay(150)>>]]) :
        date \in DateLista,
        articoli \in SeqFino([seriale : SerialiLista, sorte : SortiLista], MaxProdotti)}

\* the list page over a database of one Purchase
InitLista ==
    /\ acquisti = << >>
    /\ prodotti = << >>
    /\ vendite = << >>
    /\ seq = [a |-> 0, p |-> 0, v |-> 0]
    /\ last = [op |-> "avvio", esito |-> "ok", aggiornati |-> 0, errori |-> 0]
    /\ richieste = [r \in Richieste |-> Libera]
    /\ loop = 0
    /\ acquisto = None
    /\ archivio \in {Numerati(<<a>>) : a \in AcquistiLista}
    /\ metriche = NessunaMetrica

NextLista == lista
SpecLista == InitLista /\ [][NextLista]_vars

\* ============================================================== claims
\* the form entries of a request, as the handlers of Spec receive them
FormCrea == SeqFino(VociCrea, MaxVoci)
FormSeriali == SeqFino(VociSeriali, MaxVoci)
FormModifica == SeqFino(VociModifica, MaxVoci)

\* the records of a batch that carry a code already stored, or carried by
\* an earlier record of the batch
CodiciGiaVisti(db, lotti) ==
    {i \in 1..Len(lotti) :
        \/ \E a \in DOMAIN db.acquisti :
               db.acquisti[a].id_acquisto_univoco = lotti[i].id_acquisto_univoco
        \/ \E j \in 1..(i - 1) : lotti[j].id_acquisto_univoco = lotti[i].id_acquisto_univoco}

CodiciDistinti(acq) ==
    \A a, b \in DOMAIN acq : a # b => acq[a].id_acquisto_univoco # acq[b].id_acquisto_univoco

\* C1 -- no two stored Purchases share id_acquisto_univoco.  A creation
\* with a stored code, and a modification to the code of another Purchase,
\* are rejected and leave the database as it was; the import skips every
\* record whose code is stored or was carried by an earlier record of the
\* same batch, counts it as aggiornato, and leaves the stored Purchases
\* as they were.
C1_CodiceUnivoco ==
    /\ CodiciDistinti(acquisti)
    /\ \A codice \in Codici, costo \in Costi, voci \in SeqFino(VociUna, MaxVoci) :
          LET r == H_crea_acquisto(Db, codice, costo, voci)
          IN  /\ CodiciDistinti(r.db.acquisti)
              /\ (\E a \in DOMAIN acquisti : acquisti[a].id_acquisto_univoco = codice) =>
                     r.esito = "id_esistente" /\ r.db = Db
    /\ \A acquisto_id \in DOMAIN acquisti, nuovo_id \in Codici, costo \in Costi,
          voci \in SeqFino(VociModUna, MaxVoci) :
          LET r == H_salva_modifica_acquisto(Db, acquisto_id, nuovo_id, costo, voci)
          IN  /\ CodiciDistinti(r.db.acquisti)
              /\ (\E b \in DOMAIN acquisti \ {acquisto_id} :
                      acquisti[b].id_acquisto_univoco = nuovo_id) =>
                     r.esito = "id_esistente" /\ r.db = Db
    /\ \A k \in 0..MaxVoci : \A lotti \in PayloadAcquisti(k) :
          LET r == H_ricevi_acquisti_da_script(Db, lotti)
          IN  /\ CodiciDistinti(r.db.acquisti)
              /\ \A a \in DOMAIN acquisti :
                    a \in DOMAIN r.db.acquisti /\ r.db.acquisti[a] = acquisti[a]
              /\ r.esito = "success" =>
                    /\ r.aggiornati = Cardinality(CodiciGiaVisti(Db, lotti))
                    /\ Cardinality(DOMAIN r.db.acquisti) =
                           Cardinality(DOMAIN acquisti) + Len(lotti) - r.aggiornati

\* an import has just skipped a record whose code was taken
C1_ImportSaltato ==
    /\ last.op = "ricevi_acquisti_da_script"
    /\ last.esito = "success"
    /\ last.aggiornati > 0
    /\ acquisti # << >>

\* C2 -- no two stored Items carry the same real serial.
C2_SerialeUnivoco ==
    \A p, q \in DOMAIN prodotti :
        (p # q /\ SerialeReale(prodotti[p].seriale)) => prodotti[p].seriale # prodotti[q].seriale

\* C3 -- a request whose serials are all placeholders ("N/A", "???") or
\* empty is never rejected as carrying a duplicate serial, whatever Items
\* are stored.
C3_SegnapostoAmmesso ==
    /\ \A codice \in Codici, costo \in Costi, voci \in FormCrea :
          (\A i \in 1..Len(voci) : ~SerialeReale(strip(voci[i].seriale))) =>
              H_crea_acquisto(Db, codice, costo, voci).esito # "seriale_esistente"
    /\ \A acquisto_id \in DOMAIN acquisti, voci \in FormSeriali :
          (\A i \in 1..Len(voci) : ~SerialeReale(strip(voci[i].seriale))) =>
              H_salva_seriali(Db, acquisto_id, voci).esito # "seriale_esistente"

\* C4 -- an Item that has a Sale is left as it is, and stays stored, by
\* every step.
C4_VendutoImmutabile ==
    [][\A p \in DOMAIN prodotti :
          venduto(Db, p) => p \in DOMAIN prodotti' /\ prodotti'[p] = prodotti[p]]_vars

\* C5 -- deleting a Purchase with at least one sold Item is rejected with
\* the number of its sold Items and changes nothing; deleting a Purchase
\* with no sold Item removes the Purchase and all its Items and nothing
\* else.
C5_EliminaAcquisto ==
    \A acquisto_id \in DOMAIN acquisti :
        LET r == H_elimina_acquisto(Db, acquisto_id)
            suoi == {p \in DOMAIN prodotti : prodotti[p].acquisto_id = acquisto_id}
            venduti == {p \in suoi : \E v \in DOMAIN vendite : vendite[v].prodotto_id = p}
        IN  IF venduti # {}
            THEN r.esito = "prodotti_venduti" /\ r.errori = Cardinality(venduti) /\ r.db = Db
            ELSE /\ r.esito = "ok"
                 /\ DOMAIN r.db.acquisti = DOMAIN acquisti \ {acquisto_id}
                 /\ DOMAIN r.db.prodotti = DOMAIN prodotti \ suoi
                 /\ \A a \in DOMAIN r.db.acquisti : r.db.acquisti[a] = acquisti[a]
                 /\ \A p \in DOMAIN r.db.prodotti : r.db.prodotti[p] = prodotti[p]
                 /\ r.db.vendite = vendite

\* a deletion has just been refused for a Purchase with a sold Item, and
\* the Purchase, the Item and the Sale are stored
C5_Rifiutata ==
    /\ last.op = "elimina_acquisto"
    /\ last.esito = "prodotti_venduti"
    /\ last.errori > 0
    /\ \E v \in DOMAIN vendite :
          /\ vendite[v].prodotto_id \in DOMAIN prodotti
          /\ prodotti[vendite[v].prodotto_id].acquisto_id \in DOMAIN acquisti

\* C6 -- no two stored Sales share the same invoicex_id.
C6_InvoicexUnivoco ==
    \A v, w \in DOMAIN vendite : v # w => vendite[v].invoicex_id # vendite[w].invoicex_id

\* the records of a Sales batch that carry a serial, that of a stored Item
ConProdotto(voci) ==
    {i \in 1..Len(voci) :
        /\ voci[i].seriale \notin {None, ""}
        /\ \E p \in DOMAIN prodotti : prodotti[p].seriale = voci[i].seriale}

\* the Sales batches all of whose records carry an external id, one that
\* is stored
GiaImportate ==
    {voci \in SeqFino(VenditeJson, MaxVoci) :
        /\ voci # <<>>
        /\ \A i \in 1..Len(voci) :
              /\ voci[i].id # ""
              /\ \E v \in DOMAIN vendite : vendite[v].invoicex_id = voci[i].id}

\* C7 (as stated) -- importing records whose external id is already stored
\* leaves the Sales unchanged and counts every record as already
\* synchronized: none as inserted, none as an error.
C7_GiaSincronizzata ==
    \A voci \in GiaImportate, primo \in BOOLEAN :
        LET r == H_ricevi_vendite_da_script(Db, voci, primo)
        IN  /\ r.db = Db
            /\ r.inseriti = 0
            /\ r.aggiornati = Len(voci)
            /\ r.errori = 0

\* C7 (amended) -- importing records whose external id is already stored
\* leaves the database unchanged and inserts nothing; a record is counted
\* as already synchronized when its serial is that of a stored Item, and as
\* an error when its serial is missing or matches no Item, because the Item
\* is looked up before the external id.
C7_GiaSincronizzataSeProdotto ==
    \A voci \in GiaImportate, primo \in BOOLEAN :
        LET r == H_ricevi_vendite_da_script(Db, voci, primo)
        IN  /\ r.esito = "success"
            /\ r.db = Db
            /\ r.inseriti = 0
            /\ r.aggiornati = Cardinality(ConProdotto(voci))
            /\ r.errori = Len(voci) - Cardinality(ConProdotto(voci))

\* a Sale is stored under an external id and an import has just reported a
\* record as already synchronized
C7_Reimportata ==
    /\ last.op = "ricevi_vendite_da_script"
    /\ last.esito = "success"
    /\ last.aggiornati > 0
    /\ \E v \in DOMAIN vendite : vendite[v].invoicex_id = "X1"

\* C8 -- of two requests that overlap, both creating an Item with the same
\* real serial or both importing a Sale with the same external id, at most
\* one stores its record: no two Items created by requests share a real
\* serial, and no two Sales share an external id.
C8_AlPiuUno ==
    /\ \A p, q \in DOMAIN prodotti :
          (p # q /\ SerialeReale(prodotti[p].seriale)) => prodotti[p].seriale # prodotti[q].seriale
    /\ \A v, w \in DOMAIN vendite : v # w => vendite[v].invoicex_id # vendite[w].invoicex_id
    /\ \A r, q \in Richieste :
          (/\ r # q
           /\ richieste[r].pc = "finita" /\ richieste[q].pc = "finita"
           /\ richieste[r].tipo = "crea_acquisto" /\ richieste[q].tipo = "crea_acquisto"
           /\ richieste[r].dati.voci = richieste[q].dati.voci
           /\ SerialeReale(strip(richieste[r].dati.voci[1].seriale))) =>
              ~(richieste[r].esito = "ok" /\ richieste[q].esito = "ok")

\* two requests that carried the same real serial overlapped and have both
\* ended: one stored its Item, the other was rejected
C8_UnaRifiutata ==
    \E r, q \in Richieste :
        /\ r # q
        /\ richieste[r].pc = "finita" /\ richieste[q].pc = "finita"
        /\ richieste[r].tipo = "crea_acquisto" /\ richieste[q].tipo = "crea_acquisto"
        /\ richieste[r].concorrente
        /\ richieste[r].dati.voci = richieste[q].dati.voci
        /\ SerialeReale(strip(richieste[r].dati.voci[1].seriale))
        /\ richieste[r].esito = "ok"
        /\ richieste[q].esito = "seriale_esistente"
        /\ \E p \in DOMAIN prodotti : SerialeReale(prodotti[p].seriale)

\* C9 -- in a batch of Purchases every record is processed independently:
\* a record that would be stored when sent alone, and whose code no earlier
\* record of the batch carries, is stored whatever the other records are.
C9_RecordIndipendenti ==
    \A k \in 1..MaxVoci : \A lotti \in PayloadAcquisti(k) :
        LET r == H_ricevi_acquisti_da_script(Db, lotti)
        IN  \A i \in 1..k :
                (/\ H_ricevi_acquisti_da_script(Db, <<lotti[i]>>).inseriti = 1
                 /\ \A j \in 1..(i - 1) :
                       lotti[j].id_acquisto_univoco # lotti[i].id_acquisto_univoco) =>
                    \E a \in DOMAIN r.db.acquisti :
                        r.db.acquisti[a].id_acquisto_univoco = lotti[i].id_acquisto_univoco

\* the outcomes of the three handlers that answer a duplicate serial with
\* a 400: the rejection leaves the database as it was
RifiutoSenzaEffetti ==
    /\ \A codice \in Codici, costo \in Costi, voci \in FormCrea :
          LET r == H_crea_acquisto(Db, codice, costo, voci)
          IN  r.esito = "seriale_esistente" => r.db = Db
    /\ \A acquisto_id \in DOMAIN acquisti, nuovo_id \in Codici, costo \in Costi,
          voci \in FormModifica :
          LET r == H_salva_modifica_acquisto(Db, acquisto_id, nuovo_id, costo, voci)
          IN  r.esito = "seriale_esistente" => r.db = Db
    /\ \A acquisto_id \in DOMAIN acquisti, voci \in FormSeriali :
          LET r == H_salva_seriali(Db, acquisto_id, voci)
          IN  r.esito = "seriale_esistente" => r.db = Db

C11_DenominatoreZero ==
    (Acquisto_costo_totale(acquisto) = 0 \/ Acquisto_numero_prodotti(acquisto) = 0)
        => metriche.esito = "ok"

\* the Purchase a of db as the relationships load it: its Items by id, each
\* with its Sales by id
RECURSIVE InOrdine(_)
InOrdine(S) ==
    IF S = {} THEN <<>>
    ELSE LET x == CHOOSE x \in S : \A y \in S : x <= y
         IN  <<x>> \o InOrdine(S \ {x})

CaricaAcquisto(db, a) ==
    LET ids == InOrdine({p \in DOMAIN db.prodotti : db.prodotti[p].acquisto_id = a})
        vendite_di(p) == InOrdine({v \in DOMAIN db.vendite : db.vendite[v].prodotto_id = p})
    IN  [id |-> a,
         costo_acquisto |-> db.acquisti[a].costo_acquisto,
         costi_accessori |-> 0,
         prodotti |-> [i \in 1..Len(ids) |->
                          [id |-> ids[i],
                           seriale |-> db.prodotti[ids[i]].seriale,
                           vendite |-> [j \in 1..Len(vendite_di(ids[i])) |->
                                           db.vendite[vendite_di(ids[i])[j]]]]]]

\* C12: every Sale that an import creates is the synthetic Sale of an Item
\* flagged is_fotorip; it is on the reserved channel, carries commission 0,
\* and its price is the unit cost allocated to the Item (the total cost of
\* the Purchase divided by the number of its Items), so that the margin of
\* the Item is exactly 0 whatever the size of the batch.
C12_FotoripMargineZero ==
    \A k \in 0..MaxVoci : \A lotti \in PayloadAcquisti(k) :
        LET r == H_ricevi_acquisti_da_script(Db, lotti)
        IN  \A v \in DOMAIN r.db.vendite \ DOMAIN vendite :
                LET vendita == r.db.vendite[v]
                    a == CaricaAcquisto(r.db, r.db.prodotti[vendita.prodotto_id].acquisto_id)
                    p == CHOOSE p \in 1..Len(a.prodotti) : a.prodotti[p].id = vendita.prodotto_id
                IN  /\ vendita.canale_vendita = "RIPARAZIONI"
                    /\ vendita.commissioni = 0
                    /\ Uguale(Num(vendita.prezzo_vendita), Prodotto_costo_unitario(a))
                    /\ Uguale(Prodotto_margine_vendita(a, a.prodotti[p]), Num(0))

\* the margin % that the rows of a report give for Purchase id (none when
\* the report leaves the Purchase out)
MargineRiportato(righe, id) ==
    {righe[i].margine_percentuale : i \in {j \in 1..Len(righe) : righe[j].acquisto = id}}

MargineDelPeriodo(righe, id) ==
    {righe[i].margine_percentuale :
        i \in {j \in 1..Len(righe) : \E h \in 1..Len(righe[j].acquisti) : righe[j].acquisti[h] = id}}

\* Purchase b without its service-use Items, at the same cost per Item
SenzaFotorip(b) ==
    [b EXCEPT !.prodotti = ProdottiBusiness(b),
              !.costo_acquisto = (@ * Len(ProdottiBusiness(b))) \div Len(b.prodotti)]

\* a Purchase that holds a service-use Item next to business Items, one of
\* them sold
ConFotoripEBusiness(b) ==
    /\ \E i \in 1..Len(b.prodotti) : Fotorip(b.prodotti[i])
    /\ \E i \in 1..Len(b.prodotti) : ~Fotorip(b.prodotti[i]) /\ Len(b.prodotti[i].vendite) > 0
    /\ (b.costo_acquisto * Len(ProdottiBusiness(b))) % Len(b.prodotti) = 0

\* C13: the business margin % that the critical-margin report, the
\* performance classification and the period rollup give for a Purchase is
\* the one they give for the same Purchase without its service-use Items
\* (same business Items and Sales, same cost per Item).
C13_MargineSenzaFotorip ==
    ConFotoripEBusiness(acquisto) =>
        /\ metriche.op = "problemi" =>
               MargineRiportato(metriche.margini_critici, acquisto.id)
                   = MargineRiportato(MarginiCritici(<<SenzaFotorip(acquisto)>>), acquisto.id)
        /\ metriche.op = "performance_dashboard" =>
               MargineRiportato(metriche.performance_data, acquisto.id)
                   = MargineRiportato(PerformanceData(<<SenzaFotorip(acquisto)>>), acquisto.id)
        /\ metriche.op = "statistiche_periodiche" =>
               MargineDelPeriodo(metriche.statistiche, acquisto.id)
                   = MargineDelPeriodo(
                         statistiche_periodiche(<<SenzaFotorip(acquisto)>>,
                                                metriche.periodo_selezionato).statistiche,
                         acquisto.id)

\* cost is the share of the total cost of Purchase a that falls on its
\* business Items when every Item, service-use or not, carries the same
\* share: cost = total * business / all, and cost plus the share of the
\* service-use Items is the total
QuotaBusiness(a, costo) ==
    LET tutti == Len(a.prodotti)
        business == Cardinality({i \in 1..Len(a.prodotti) :
                        \A j \in 1..Len(a.prodotti[i].vendite) :
                            a.prodotti[i].vendite[j].canale_vendita # "RIPARAZIONI"})
        totale == a.costo_acquisto + a.costi_accessori
    IN  /\ costo.n * tutti = totale * business * costo.d
        /\ (costo.n * tutti + totale * (tutti - business) * costo.d) = totale * tutti * costo.d
        /\ (business < tutti /\ totale > 0) => costo.n # totale * costo.d

C15_UrgenzaLimitata ==
    metriche.op \in {"urgenza_score", "calcola_metriche_acquisto"} =>
        metriche.urgenza_score \in 0..100

\* a flagged lost package with three Items lacking a serial, unsold after
\* 100 days in stock: the terms add up to more than 100
C15_OltreCento ==
    /\ metriche.op = "urgenza_score"
    /\ metriche.urgenza_score = 100
    /\ acquisto.problema_segnalato /\ acquisto.problema_tipo = "pacco_perso"
    /\ metriche.prodotti_senza_seriali >= 3
    /\ acquisto.data_consegna = Qualche(oggi - 100)
    /\ \E i \in 1..Len(acquisto.prodotti) : Len(acquisto.prodotti[i].vendite) = 0

\* C16: a Purchase flagged with a lost package, none of whose Items lacks a
\* real serial, has urgency score exactly 80, whether it has arrived or not,
\* however long it has been in stock and whether its Items are sold.
C16_PaccoPerso ==
    (/\ metriche.op \in {"urgenza_score", "calcola_metriche_acquisto"}
     /\ acquisto.problema_segnalato
     /\ acquisto.problema_tipo = "pacco_perso"
     /\ \A i \in 1..Len(acquisto.prodotti) :
            acquisto.prodotti[i].seriale \notin {None, "", " ", "N/A", "???"})
        => metriche.urgenza_score = 80

\* Purchase a, paid and registered today: 0 waiting days
PagatoOggi(a) == [a EXCEPT !.data_pagamento = Qualche(oggi), !.created_at = oggi]

C18_SerialiMancanti ==
    (/\ metriche.op \in {"urgenza_score", "calcola_metriche_acquisto"}
     /\ ~acquisto.problema_segnalato
     /\ acquisto.data_consegna # Nessuno
     /\ oggi - Val(acquisto.data_consegna) <= 30)
        => LET n == Cardinality({i \in 1..Len(acquisto.prodotti) :
                        acquisto.prodotti[i].seriale \in {None, "", " ", "N/A", "???"}})
           IN  metriche.urgenza_score = (IF 10 * n < 30 THEN 10 * n ELSE 30)

\* the performance score as the tiers define it, for a Purchase with a sold
\* Item: 50, the tier of the margin % of the business subset (0 % when the
\* business cost is 0), the sale-speed tier when every Item is sold and the
\* Purchase has arrived, clamped to 0..100
PunteggioAtteso(a) ==
    LET tutti == Len(a.prodotti)
        business == {i \in 1..tutti :
                        \A j \in 1..Len(a.prodotti[i].vendite) :
                            a.prodotti[i].vendite[j].canale_vendita # "RIPARAZIONI"}
        RECURSIVE ricavi(_)
        ricavi(I) ==
            IF I = {} THEN 0
            ELSE LET i == CHOOSE i \in I : TRUE
                 IN  Somma([j \in 1..Len(a.prodotti[i].vendite) |->
                               a.prodotti[i].vendite[j].prezzo_vendita
                                   - a.prodotti[i].vendite[j].commissioni])
                     + ricavi(I \ {i})
        costo == (a.costo_acquisto + a.costi_accessori) * Cardinality(business)
        \* margin % times costo, costo being the business cost times tutti
        margine == 100 * (ricavi(business) * tutti - costo)
        tier == IF costo > 0 /\ margine >= 25 * costo THEN 30
                ELSE IF costo > 0 /\ margine >= 15 * costo THEN 20
                ELSE IF costo > 0 /\ margine >= 5 * costo THEN 10
                ELSE -10
        giorni == oggi - Val(a.data_consegna)
        speed == IF a.data_consegna = Nessuno
                    \/ \E i \in 1..tutti : Len(a.prodotti[i].vendite) = 0
                 THEN 0
                 ELSE IF giorni <= 30 THEN 20
                 ELSE IF giorni <= 60 THEN 10
                 ELSE -10
        score == 50 + tier + speed
    IN  IF score < 0 THEN 0 ELSE IF score > 100 THEN 100 ELSE score

\* C19: the performance score that the list page attaches to a Purchase is
\* defined exactly when an Item of the Purchase is sold, and is then 50 plus
\* the margin tier of the business subset (+30 from 25 %, +20 from 15 %,
\* +10 from 5 %, -10 below 5 %, zero and negative margins included) plus
\* the sale-speed tier (only when fully sold with known stock age), clamped
\* to 0..100.
C19_PerformanceScore ==
    (metriche.op = "calcola_metriche_acquisto" /\ metriche.esito = "ok") =>
        IF \E i \in 1..Len(acquisto.prodotti) : Len(acquisto.prodotti[i].vendite) > 0
        THEN metriche.performance_score = Qualche(PunteggioAtteso(acquisto))
        ELSE metriche.performance_score = Nessuno

\* C20: the performance classification and the period rollup report a
\* Purchase exactly when it has arrived and holds an Item that is not a
\* service-use Item, whether or not it also holds service-use Items.
C20_AcquistiInclusi ==
    LET dovuto ==
            /\ acquisto.data_consegna # Nessuno
            /\ \E i \in 1..Len(acquisto.prodotti) :
                   \A j \in 1..Len(acquisto.prodotti[i].vendite) :
                       acquisto.prodotti[i].vendite[j].canale_vendita # "RIPARAZIONI"
    IN  /\ metriche.op = "performance_dashboard" =>
               (dovuto <=> \E r \in 1..Len(metriche.performance_data) :
                               metriche.performance_data[r].acquisto = acquisto.id)
        /\ metriche.op = "statistiche_periodiche" =>
               (dovuto <=> \E r \in 1..Len(metriche.statistiche) :
                               \E h \in 1..Len(metriche.statistiche[r].acquisti) :
                                   metriche.statistiche[r].acquisti[h] = acquisto.id)

\* what the classification owes to Purchase a, from the rows of the tables:
\* the business Items are those with no Sale on the reserved channel
Classificazione(a) ==
    LET business == {i \in 1..Len(a.prodotti) :
                        \A j \in 1..Len(a.prodotti[i].vendite) :
                            a.prodotti[i].vendite[j].canale_vendita # "RIPARAZIONI"}
        venduti == {i \in business : Len(a.prodotti[i].vendite) > 0}
        date == UNION {{a.prodotti[i].vendite[j].data_vendita :
                           j \in 1..Len(a.prodotti[i].vendite)} : i \in venduti}
        ricavi == [i \in 1..Len(a.prodotti) |->
                      IF i \in venduti
                      THEN Somma([j \in 1..Len(a.prodotti[i].vendite) |->
                                     a.prodotti[i].vendite[j].prezzo_vendita
                                         - a.prodotti[i].vendite[j].commissioni])
                      ELSE 0]
        \* the business cost is costo / tutti
        costo == (a.costo_acquisto + a.costi_accessori) * Cardinality(business)
        tutti == Len(a.prodotti)
    IN  [x |-> Cardinality(venduti),
         y |-> Cardinality(business),
         giorni |-> IF date = {} \/ a.data_consegna = <<>> THEN 0
                    ELSE (CHOOSE d \in date : \A e \in date : e <= d) - Val(a.data_consegna),
         \* margin % below 25, the business cost being positive
         margine_basso |-> 100 * (Somma(ricavi) * tutti - costo) < 25 * costo]

\* C21: every Purchase that the performance page classifies carries the
\* partial-sale issue (x/y), x of its y business Items being sold, exactly
\* when x < y; when all are sold it carries the slow-sale issue (n days)
\* exactly when the n days from the arrival to the latest business Sale
\* exceed 30; it carries the low-margin issue exactly when the business
\* margin % is below 25, shown to one decimal (cost 100 sold for 90 net:
\* -10.0 %); its status is OK exactly when it carries no issue, PROBLEMI
\* otherwise; the partial-sale and the slow-sale issue never come together.
C21_Classificazione ==
    metriche.op = "performance_dashboard" =>
        \A r \in 1..Len(metriche.performance_data) :
            LET riga == metriche.performance_data[r]
                a == archivio[riga.acquisto]
                c == Classificazione(a)
                issues == riga.performance_issues
                ha(testo) == \E k \in 1..Len(issues) : issues[k][1] = testo
            IN  /\ (c.x < c.y) <=> ha("Vendita parziale")
                /\ ha("Vendita parziale") =>
                       \E k \in 1..Len(issues) : issues[k] = <<"Vendita parziale", c.x, c.y>>
                /\ c.x = c.y => ((c.giorni > 30) <=> ha("Vendita lenta"))
                /\ ha("Vendita lenta") =>
                       \E k \in 1..Len(issues) : issues[k] = <<"Vendita lenta", c.giorni>>
                /\ c.margine_basso <=> ha("Margine basso")
                /\ (/\ a.costo_acquisto = 100 /\ Len(a.prodotti) = 1
                    /\ Len(a.prodotti[1].vendite) = 1
                    /\ a.prodotti[1].vendite[1].prezzo_vendita = 90) =>
                       \E k \in 1..Len(issues) : issues[k] = <<"Margine basso", -100>>
                /\ (riga.performance_status = "OK") <=> (issues = <<>>)
                /\ riga.performance_status \in {"OK", "PROBLEMI"}
                /\ ~(ha("Vendita parziale") /\ ha("Vendita lenta"))

\* the page classifies two Purchases: one sold 35 days after the arrival at
\* a margin below 25 %, one sold within 30 days at 25 %, which is OK
C21_LentaEBassa ==
    /\ metriche.op = "performance_dashboard"
    /\ Len(metriche.performance_data) = 2
    /\ \E r \in 1..2 :
           /\ \E k \in 1..Len(metriche.performance_data[r].performance_issues) :
                  metriche.performance_data[r].performance_issues[k] = <<"Vendita lenta", 35>>
           /\ \E k \in 1..Len(metriche.performance_data[r].performance_issues) :
                  metriche.performance_data[r].performance_issues[k][1] = "Margine basso"
    /\ \E r \in 1..2 : metriche.performance_data[r].performance_status = "OK"

\* the totals of the buckets of a rollup: investment (a fraction, not
\* reduced), revenue and count
RECURSIVE TotaliRollup(_)
TotaliRollup(righe) ==
    IF righe = <<>> THEN [n |-> 0, d |-> 1, ricavi |-> 0, count |-> 0]
    ELSE LET t == TotaliRollup(Tail(righe))
             r == Head(righe)
         IN  [n |-> r.investimento.n * t.d + t.n * r.investimento.d,
              d |-> r.investimento.d * t.d,
              ricavi |-> r.ricavi + t.ricavi,
              count |-> r.count + t.count]

\* the number of times Purchase id is listed in the buckets
RECURSIVE Contributi(_, _)
Contributi(righe, id) ==
    IF righe = <<>> THEN 0
    ELSE Cardinality({h \in 1..Len(Head(righe).acquisti) : Head(righe).acquisti[h] = id})
         + Contributi(Tail(righe), id)

\* C22: for the Purchases of the database, the investment summed over the
\* weekly buckets of the period rollup equals the investment summed over
\* its monthly buckets, and so do the revenue and the count; a Purchase
\* that the rollup includes is listed in exactly one weekly bucket and in
\* exactly one monthly bucket, and one that it leaves out is in none.
C22_RollupConservato ==
    metriche.op = "statistiche_periodiche" =>
        LET questo == metriche.statistiche
            altro == statistiche_periodiche(
                         archivio,
                         IF metriche.periodo_selezionato = "mese" THEN "settimana"
                         ELSE "mese").statistiche
            tq == TotaliRollup(questo)
            ta == TotaliRollup(altro)
        IN  /\ tq.n * ta.d = ta.n * tq.d
            /\ tq.ricavi = ta.ricavi
            /\ tq.count = ta.count
            /\ \A i \in 1..Len(archivio) :
                   /\ Contributi(questo, archivio[i].id) \in {0, 1}
                   /\ Contributi(questo, archivio[i].id) = Contributi(altro, archivio[i].id)
            /\ \A k \in 1..Len(questo) : questo[k].count = Len(questo[k].acquisti)

\* the monthly rollup of two Purchases of positive revenue that arrived in
\* the same month and in different weeks: one bucket by month, two by week
C22_StessoMeseAltraSettimana ==
    /\ metriche.op = "statistiche_periodiche"
    /\ metriche.periodo_selezionato = "mese"
    /\ Len(metriche.statistiche) = 1
    /\ metriche.statistiche[1].count = 2
    /\ Len(statistiche_periodiche(archivio, "settimana").statistiche) = 2
    /\ \A i \in 1..Len(archivio) :
           \E j \in 1..Len(archivio[i].prodotti) : Len(archivio[i].prodotti[j].vendite) > 0

\* the Items in stock for more than 30 days, from the rows of the tables:
\* <<Purchase, Item>> positions in the database
InStockDaTroppo ==
    {<<i, j>> \in (1..Len(archivio)) \X (1..MaxProdotti) :
        /\ j <= Len(archivio[i].prodotti)
        /\ archivio[i].prodotti[j].vendite = <<>>
        /\ archivio[i].data_consegna # Nessuno
        /\ oggi - archivio[i].data_consegna[1] > 30}

\* C23: the slow-sales list of the problems page holds exactly the Items
\* that have no Sale and whose Purchase was delivered more than 30 days
\* before the day of the request (an Item at exactly 30 days is not
\* listed), each once, with stock age = day of the request minus delivery
\* date and unit cost = total cost / number of Items of the Purchase, in
\* non-increasing order of stock age; the unsold Item of a 2-Item Purchase
\* of total cost 220 arrived 40 days ago is listed with stock age 40 and
\* unit cost 110.
C23_VenditeLente ==
    metriche.op = "problemi" =>
        LET righe == metriche.vendite_lente
        IN  /\ Len(righe) = Cardinality(InStockDaTroppo)
            /\ \A ij \in InStockDaTroppo :
                   \E r \in 1..Len(righe) :
                       /\ righe[r].acquisto = archivio[ij[1]].id
                       /\ righe[r].prodotto.id = archivio[ij[1]].prodotti[ij[2]].id
            /\ \A r \in 1..Len(righe) :
                   \E i \in 1..Len(archivio) :
                       /\ archivio[i].id = righe[r].acquisto
                       /\ righe[r].giorni_stock = oggi - archivio[i].data_consegna[1]
                       /\ righe[r].giorni_stock > 30
                       /\ righe[r].costo_unitario.n * Len(archivio[i].prodotti)
                              = (archivio[i].costo_acquisto + archivio[i].costi_accessori)
                                    * righe[r].costo_unitario.d
                       /\ (/\ archivio[i].costo_acquisto + archivio[i].costi_accessori = 220
                           /\ Len(archivio[i].prodotti) = 2
                           /\ archivio[i].data_consegna = <<oggi - 40>>)
                              => /\ righe[r].giorni_stock = 40
                                 /\ righe[r].costo_unitario = [n |-> 110, d |-> 1]
            /\ \A r \in 1..Len(righe) - 1 : righe[r].giorni_stock >= righe[r + 1].giorni_stock

\* the database holds a Purchase of cost 220 arrived 40 days ago, one of its
\* two Items sold and one not, and a Purchase arrived 30 days ago whose Item
\* is not sold: the list holds the first unsold Item and not the second
C23_QuarantaGiorni ==
    /\ metriche.op = "problemi"
    /\ Len(archivio) = 2
    /\ \E i \in 1..2 :
           /\ archivio[i].costo_acquisto = 220
           /\ archivio[i].data_consegna = <<oggi - 40>>
           /\ Len(archivio[i].prodotti) = 2
           /\ archivio[i].prodotti[1].vendite # <<>>
           /\ archivio[i].prodotti[2].vendite = <<>>
    /\ \E i \in 1..2 :
           /\ archivio[i].data_consegna = <<oggi - 30>>
           /\ archivio[i].prodotti[1].vendite = <<>>
    /\ Len(metriche.vendite_lente) = 1
    /\ metriche.vendite_lente[1].giorni_stock = 40
    /\ metriche.vendite_lente[1].costo_unitario = [n |-> 110, d |-> 1]

\* C24: the critical-margin list of the problems page holds a Purchase
\* exactly when one of its Sales is not a service-use Sale and its business
\* margin % is below 25; a Purchase whose only Sales are service-use Sales
\* is not listed; the list is in non-decreasing order of margin %.
C24_MarginiCritici ==
    metriche.op = "problemi" =>
        LET righe == metriche.margini_critici
            venduto_davvero(a) ==
                \E i \in 1..Len(a.prodotti) : \E j \in 1..Len(a.prodotti[i].vendite) :
                    a.prodotti[i].vendite[j].canale_vendita # "RIPARAZIONI"
        IN  /\ \A i \in 1..Len(archivio) :
                   (\E r \in 1..Len(righe) : righe[r].acquisto = archivio[i].id)
                       <=> (/\ venduto_davvero(archivio[i])
                            /\ Classificazione(archivio[i]).margine_basso)
            /\ \A r \in 1..Len(righe) - 1 :
                   righe[r].margine_percentuale.n * righe[r + 1].margine_percentuale.d
                       <= righe[r + 1].margine_percentuale.n * righe[r].margine_percentuale.d

\* the three conditions of the "problematic" filter, from the rows of the
\* tables: an Item is a service-use Item when one of its Sales is on the
\* reserved channel; a serial is real unless it is null, empty, blank or a
\* placeholder
Problematico(a) ==
    LET service_use(p) ==
            \E j \in 1..Len(p.vendite) : p.vendite[j].canale_vendita = "RIPARAZIONI"
    IN  \/ \E i \in 1..Len(a.prodotti) :
               /\ ~service_use(a.prodotti[i])
               /\ a.prodotti[i].seriale \in {None, "", " ", "N/A", "???"}
        \/ a.data_consegna = <<>>
        \/ /\ a.data_consegna # <<>>
           /\ oggi - a.data_consegna[1] > 30
           /\ \E i \in 1..Len(a.prodotti) :
                  ~service_use(a.prodotti[i]) /\ a.prodotti[i].vendite = <<>>

\* C25: the list page filtered by "problematici" shows a Purchase exactly
\* when it has a non-service-use Item lacking a real serial, or it has not
\* arrived, or it arrived more than 30 days ago and still has an unsold
\* non-service-use Item.
C25_FiltroProblematici ==
    (metriche.op = "lista_acquisti" /\ metriche.filtro_stato = "problematici") =>
        \A i \in 1..Len(archivio) :
            Problematico(archivio[i])
                <=> \E r \in 1..Len(metriche.acquisti) :
                        metriche.acquisti[r].acquisto = archivio[i].id

\* C29: the list page filtered by "problematici" shows a Purchase exactly
\* when the problematico flag that the page computes for it is true; so for
\* a Purchase with no Items that arrived more than 30 days ago, and for one
\* that arrived exactly 30 days ago.
C29_FiltroComeFlag ==
    (metriche.op = "lista_acquisti" /\ metriche.filtro_stato = "problematici") =>
        \A i \in 1..Len(archivio) :
            calcola_metriche_acquisto(archivio[i]).problematico
                <=> \E r \in 1..Len(metriche.acquisti) :
                        metriche.acquisti[r].acquisto = archivio[i].id

\* C26: a Sale that exists can always be deleted: elimina_vendita answers
\* ok for it whatever its Item and Purchase, and removes that Sale and
\* nothing else.  An Item is sold exactly while a Sale refers to it: once
\* its last Sale is deleted the Item is unsold, a modification of its
\* Purchase that was ignored for it before is applied to it, and its
\* Purchase, which could not be deleted before, can be deleted when no other
\* Item of it is sold.
C26_VenditaEliminabile ==
    \A v \in DOMAIN vendite :
        LET r == H_elimina_vendita(Db, v)
            p == vendite[v].prodotto_id
            altre == {w \in DOMAIN vendite : w # v /\ vendite[w].prodotto_id = p}
        IN  /\ r.esito = "ok"
            /\ DOMAIN r.db.vendite = DOMAIN vendite \ {v}
            /\ \A w \in DOMAIN r.db.vendite : r.db.vendite[w] = vendite[w]
            /\ r.db.prodotti = prodotti
            /\ r.db.acquisti = acquisti
            /\ p \in DOMAIN prodotti =>
                   LET a == prodotti[p].acquisto_id
                       voce == <<[id |-> p, seriale |-> " ", descrizione |-> "d2"]>>
                       modifica(db) ==
                           H_salva_modifica_acquisto(db, a, acquisti[a].id_acquisto_univoco,
                                                     acquisti[a].costo_acquisto, voce)
                   IN  /\ venduto(Db, p)
                       /\ venduto(r.db, p) <=> altre # {}
                       /\ modifica(Db).db.prodotti[p] = prodotti[p]
                       /\ H_elimina_acquisto(Db, a).esito = "prodotti_venduti"
                       /\ altre = {} =>
                              /\ modifica(r.db).esito = "ok"
                              /\ modifica(r.db).db.prodotti[p].prodotto_descrizione = "d2"
                              /\ (\A q \in ProdottiDi(r.db, a) : ~venduto(r.db, q)) =>
                                     /\ H_elimina_acquisto(r.db, a).esito = "ok"
                                     /\ p \notin DOMAIN H_elimina_acquisto(r.db, a).db.prodotti

\* the only Sale of an Item was deleted: the Item is stored and unsold
C26_UltimaVenditaEliminata ==
    /\ last.op = "elimina_vendita"
    /\ last.esito = "ok"
    /\ seq.v > 0
    /\ DOMAIN vendite = {}
    /\ DOMAIN prodotti # {}

\* C27: after any sequence of registrations, modifications, deletions and
\* imports, every stored Sale refers to a stored Item and every stored Item
\* to a stored Purchase, and no step changes the Purchase that a stored Item
\* belongs to.
C27_Riferimenti ==
    /\ [](/\ \A v \in DOMAIN vendite : vendite[v].prodotto_id \in DOMAIN prodotti
          /\ \A p \in DOMAIN prodotti : prodotti[p].acquisto_id \in DOMAIN acquisti)
    /\ [][\A p \in DOMAIN prodotti \cap DOMAIN prodotti' :
              prodotti'[p].acquisto_id = prodotti[p].acquisto_id]_vars

\* a modification deleted an unsold Item of a database that holds a Sale
C27_ModificaConVendita ==
    /\ last.op = "salva_modifica_acquisto"
    /\ last.esito = "ok"
    /\ DOMAIN vendite # {}
    /\ Cardinality(DOMAIN prodotti) < seq.p

\* C28: salva_modifica_acquisto on a Purchase leaves every other Purchase
\* and every Item of another Purchase as they were: whatever Item ids the
\* form carries, no such Item is modified or deleted.
C28_SoloIlProprioAcquisto ==
    \A acquisto_id \in DOMAIN acquisti : \A nuovo_id \in Codici : \A costo \in Costi :
        \A voci \in FormModifica :
            LET r == H_salva_modifica_acquisto(Db, acquisto_id, nuovo_id, costo, voci)
            IN  /\ \A a \in DOMAIN acquisti \ {acquisto_id} :
                       a \in DOMAIN r.db.acquisti /\ r.db.acquisti[a] = acquisti[a]
                /\ \A p \in DOMAIN prodotti :
                       prodotti[p].acquisto_id # acquisto_id =>
                           p \in DOMAIN r.db.prodotti /\ r.db.prodotti[p] = prodotti[p]

\* C30: an import record whose code is already stored changes nothing.
\* Whatever the batch, every stored Purchase keeps its columns, its Items
\* and their Sales, and no Item or Sale is added to it; a batch made only of
\* stored codes is answered with success, counts every record in
\* acquisti_aggiornati and inserts nothing, even when it lists new Items or
\* service-use Items; and a batch imported a second time leaves the tables
\* as the first import left them.
C30_ImportIdempotente ==
    \A k \in 0..MaxVoci : \A lotti \in PayloadAcquisti(k) :
        LET r == H_ricevi_acquisti_da_script(Db, lotti)
            r2 == H_ricevi_acquisti_da_script(r.db, lotti)
            tutti_presenti ==
                \A i \in 1..k : \E a \in DOMAIN acquisti :
                    acquisti[a].id_acquisto_univoco = lotti[i].id_acquisto_univoco
        IN  /\ \A a \in DOMAIN acquisti :
                   a \in DOMAIN r.db.acquisti /\ r.db.acquisti[a] = acquisti[a]
            /\ \A p \in DOMAIN prodotti :
                   p \in DOMAIN r.db.prodotti /\ r.db.prodotti[p] = prodotti[p]
            /\ \A v \in DOMAIN vendite :
                   v \in DOMAIN r.db.vendite /\ r.db.vendite[v] = vendite[v]
            /\ \A p \in DOMAIN r.db.prodotti \ DOMAIN prodotti :
                   r.db.prodotti[p].acquisto_id \notin DOMAIN acquisti
            /\ \A v \in DOMAIN r.db.vendite \ DOMAIN vendite :
                   r.db.vendite[v].prodotto_id \notin DOMAIN prodotti
            /\ tutti_presenti =>
                   /\ r.esito = "success"
                   /\ r.aggiornati = k
                   /\ r.inseriti = 0
                   /\ r.db.acquisti = acquisti
                   /\ r.db.prodotti = prodotti
                   /\ r.db.vendite = vendite
            /\ r2.db.acquisti = r.db.acquisti
            /\ r2.db.prodotti = r.db.prodotti
            /\ r2.db.vendite = r.db.vendite
            /\ r.esito = "success" =>
                   /\ r2.esito = "success"
                   /\ r2.aggiornati = k
                   /\ r2.inseriti = 0

\* an import skipped a record whose code belongs to the only stored
\* Purchase, which holds a service-use Item with its synthetic Sale
C30_SaltatoConFotorip ==
    /\ last.op = "ricevi_acquisti_da_script"
    /\ last.esito = "success"
    /\ last.aggiornati = 1
    /\ Cardinality(DOMAIN acquisti) = 1
    /\ \E v \in DOMAIN vendite : vendite[v].canale_vendita = "RIPARAZIONI"

====
